---- MODULE Spec2Model ----
(***************************************************************************)
(* Care-visit auditor lambdas: the batch classification handler            *)
(* (lambda-classify-visits), the per-client summarisation handler          *)
(* (lambda-summarise-visits) and the single-record handler                 *)
(* (lambda_function.py at the top of the source tree).                     *)
(*                                                                         *)
(* Text is a sequence of one-character strings, so that strip(), lower()   *)
(* and the substring test are computed character by character.  A JSON     *)
(* value is a record [t, s]: t is its JSON type and s the characters that  *)
(* Python's str() gives for it.  A JSON object is a TLA+ record holding    *)
(* the fields that are present.                                            *)
(*                                                                         *)
(* Not modelled: the 'timestamp' field of an item (a wall-clock reading    *)
(* that nothing reads back) and the text of the log lines, except the      *)
(* numbers of the processing summary.                                      *)
(***************************************************************************)
EXTENDS Integers, Sequences, FiniteSets, TLC

VARIABLES
    handler,        \* which lambda runs: "classify", "summarise", "single";
                    \* "unit", "unit_summarise" and "unit_client" are direct
                    \* calls of one helper
    event,          \* the triggering event: [has_records, Records]
    pc,             \* where the orchestrating thread of lambda_handler is
    top,            \* how many top-level event records the outer loop has taken
    sub,            \* how many S3 records of the current SNS message were taken
    batch_id,       \* extracted_batch_id / batch_id of the current object
    records,        \* the parsed content of the current object
    tasks,          \* the argument tuples given to executor.map
    results,        \* per task: the worker's status and what it returned
    items,          \* items_for_dynamodb
    counts,         \* classification_counts
    success_count,  \* what batch_write_to_dynamodb returned
    summary_log,    \* the numbers of the processing summary that is logged
    store,          \* primary keys present in the DynamoDB table
    wr,             \* the bulk write of this notification: [calls, error, accepted]
    outcomes,       \* how each notification seen so far ended
    ack,            \* the value lambda_handler returned
    cv              \* one direct call of classify_visit_note, summarise_notes
                    \* or process_client

vars == <<handler, event, pc, top, sub, batch_id, records, tasks, results, items,
          counts,
          success_count, summary_log, store, wr, outcomes, ack, cv>>

-----------------------------------------------------------------------------
(* Bounds of the model *)

\* longest batch (number of records in one object)
MaxRecs == 2
\* most top-level records in one triggering event
MaxTop == 2
\* most S3 records in one triggering event, over all its top-level records
MaxS3 == 2

-----------------------------------------------------------------------------
(* Python text primitives *)

\* the printable ASCII characters in code point order, from 32 (space) to 126;
\* slot 96 (the backquote, which a TLA+ string cannot hold) is the token "bq"
Printable ==
    << " ", "!", "\"", "#", "$", "%", "&", "'", "(", ")", "*", "+", ",", "-",
       ".", "/", "0", "1", "2", "3", "4", "5", "6", "7", "8", "9", ":", ";",
       "<", "=", ">", "?", "@", "A", "B", "C", "D", "E", "F", "G", "H", "I",
       "J", "K", "L", "M", "N", "O", "P", "Q", "R", "S", "T", "U", "V", "W",
       "X", "Y", "Z", "[", "\\", "]", "^", "_", "bq", "a", "b", "c", "d", "e",
       "f", "g", "h", "i", "j", "k", "l", "m", "n", "o", "p", "q", "r", "s",
       "t", "u", "v", "w", "x", "y", "z", "{", "|", "}", "~" >>

\* ord(c) for the characters of the object contents and of the encoded keys:
\* printable ASCII, tab, newline, form feed and carriage return
Ord(c) ==
    IF c = "\t" THEN 9
    ELSE IF c = "\n" THEN 10
    ELSE IF c = "\f" THEN 12
    ELSE IF c = "\r" THEN 13
    ELSE 31 + (CHOOSE i \in 1..Len(Printable) : Printable[i] = c)

HexDigits ==
    << "0", "1", "2", "3", "4", "5", "6", "7", "8", "9", "A", "B", "C", "D", "E", "F" >>

\* the hexadecimal digit of n at the place of weight k
HexDigitAt(n, k) == HexDigits[((n \div k) % 16) + 1]

\* chr(n).  A character that is neither printable ASCII nor one of the four
\* escapes above is the token "U+" followed by its code point in four
\* hexadecimal digits (six above U+FFFF): chr(127) is "U+007F", chr(233) is
\* "U+00E9"
Chr(n) ==
    IF n = 9 THEN "\t"
    ELSE IF n = 10 THEN "\n"
    ELSE IF n = 12 THEN "\f"
    ELSE IF n = 13 THEN "\r"
    ELSE IF n >= 32 /\ n <= 126 THEN Printable[n - 31]
    ELSE IF n <= 65535
    THEN "U+" \o HexDigitAt(n, 4096) \o HexDigitAt(n, 256) \o HexDigitAt(n, 16)
              \o HexDigitAt(n, 1)
    ELSE "U+" \o HexDigitAt(n, 1048576) \o HexDigitAt(n, 65536)
              \o HexDigitAt(n, 4096) \o HexDigitAt(n, 256) \o HexDigitAt(n, 16)
              \o HexDigitAt(n, 1)

\* the code points str.isspace() holds of: the ASCII whitespace 9..13 and 32,
\* the separators 28..31, and the Unicode spaces and line separators
WhitespaceCodePoints ==
    (9..13) \cup (28..32) \cup {133, 160, 5760} \cup (8192..8202)
        \cup {8232, 8233, 8239, 8287, 12288}

Whitespace == { Chr(n) : n \in WhitespaceCodePoints }

\* str.isspace() of one character
IsSpace(c) == c \in Whitespace

RECURSIVE lstrip(_)
lstrip(s) == IF s # <<>> /\ IsSpace(Head(s)) THEN lstrip(Tail(s)) ELSE s

RECURSIVE rstrip(_)
rstrip(s) ==
    IF s # <<>> /\ IsSpace(s[Len(s)]) THEN rstrip(SubSeq(s, 1, Len(s) - 1)) ELSE s

\* str.strip()
strip(s) == rstrip(lstrip(s))

\* str.lower() of one character: A-Z (65..90) move to a-z
lowerChar(c) ==
    IF IsSpace(c) THEN c
    ELSE IF Ord(c) >= 65 /\ Ord(c) <= 90 THEN Chr(Ord(c) + 32) ELSE c

\* str.lower()
lower(s) == [i \in 1..Len(s) |-> lowerChar(s[i])]

\* the Python test "t in s" on strings
Contains(s, t) ==
    \E i \in 0..(Len(s) - Len(t)) : SubSeq(s, i + 1, i + Len(t)) = t

\* the Python comparison a < b on strings (code point order)
RECURSIVE StrLess(_, _)
StrLess(a, b) ==
    IF b = <<>> THEN FALSE
    ELSE IF a = <<>> THEN TRUE
    ELSE IF Head(a) = Head(b) THEN StrLess(Tail(a), Tail(b))
    ELSE Ord(Head(a)) < Ord(Head(b))

\* str(n) of a natural number
RECURSIVE StrNat(_)
StrNat(n) ==
    IF n < 10 THEN << Chr(48 + n) >> ELSE StrNat(n \div 10) \o << Chr(48 + (n % 10)) >>

-----------------------------------------------------------------------------
(* JSON values *)

JStr(s) == [t |-> "str", s |-> s]
JNum(s) == [t |-> "num", s |-> s]
JNull == [t |-> "null", s |-> <<"N", "o", "n", "e">>]

\* a JSON object holds the record of its fields, whatever their names
JObj(fields) == [t |-> "obj", fields |-> fields]

IsObject(v) == v.t = "obj"

\* "field in obj" on a dict
Has(obj, field) == field \in DOMAIN obj.fields

\* dict.get(field, default)
Get(obj, field, default) == IF Has(obj, field) THEN obj.fields[field] ELSE default

\* str(v): the text itself, the spelling of a number, "None", and "{}" for
\* the empty object (the only object the records hold as a field value)
PyStr(v) == IF v.t = "obj" /\ DOMAIN v.fields = {} THEN <<"{", "}">> ELSE v.s

\* hash(v) works: a dict key may be a text, a number or None, and no dict
Hashable(v) == v.t # "obj"

\* the number a digit sequence writes
RECURSIVE DigitsVal(_)
DigitsVal(ds) ==
    IF ds = <<>> THEN 0
    ELSE 10 * DigitsVal(SubSeq(ds, 1, Len(ds) - 1)) + (Ord(ds[Len(ds)]) - 48)

RECURSIVE Pow10(_)
Pow10(k) == IF k = 0 THEN 1 ELSE 10 * Pow10(k - 1)

\* the value of a JSON number from its text, as mant / 10^scale.  Numbers
\* are written with an optional sign, digits and an optional fraction ("7",
\* "-2", "1.5"); texts with an exponent are outside the model
NumParts(s) ==
    LET neg == s # <<>> /\ s[1] = "-"
        body == IF neg THEN Tail(s) ELSE s
        dots == { i \in 1..Len(body) : body[i] = "." }
        dot == IF dots = {} THEN Len(body) + 1 ELSE CHOOSE i \in dots : TRUE
        whole == SubSeq(body, 1, dot - 1)
        frac == SubSeq(body, dot + 1, Len(body))
    IN  [mant |-> (IF neg THEN -1 ELSE 1) * DigitsVal(whole \o frac),
         scale |-> Len(frac)]

\* a < b and a == b on two JSON numbers
NumLess(a, b) ==
    NumParts(a.s).mant * Pow10(NumParts(b.s).scale)
        < NumParts(b.s).mant * Pow10(NumParts(a.s).scale)

NumEq(a, b) ==
    NumParts(a.s).mant * Pow10(NumParts(b.s).scale)
        = NumParts(b.s).mant * Pow10(NumParts(a.s).scale)

\* Python's "<" is defined on the two values: two texts or two numbers.
\* With None, or with a text against a number, it raises TypeError
Comparable(a, b) == a.t = b.t /\ a.t \in {"str", "num"}

\* a < b on two comparable values
ValueLess(a, b) == IF a.t = "num" THEN NumLess(a, b) ELSE StrLess(a.s, b.s)

\* a == b, which is also whether a dict takes a and b for the same key: two
\* numbers of the same value are equal whatever their spelling (1 and 1.0)
ValueEq(a, b) == IF a.t = "num" /\ b.t = "num" THEN NumEq(a, b) ELSE a = b

-----------------------------------------------------------------------------
(* The text-generation model, as the caller sees it *)

\* invoke_model returned a body holding results[0].outputText = text
Reply(text) == [kind |-> "ok", text |-> text]
\* invoke_model raised (ClientError or any other exception)
CallError == [kind |-> "error", text |-> <<>>]
\* invoke_model returned a body without results[0].outputText
Malformed == [kind |-> "malformed", text |-> <<>>]

ReplyTexts ==
    { <<"R", "E", "D">>,
      <<"r", "e", "d">>,
      <<" ", "A", "m", "b", "e", "r", "\n">>,
      <<"a", "m", "b", "e", "r">>,
      <<"G", "R", "E", "E", "N">>,
      <<"G", "r", "e", "e", "n", ".">>,
      <<"r", "e", "d", " ", "a", "m", "b", "e", "r">>,
      <<"A", "M", "B", "E", "R", "/", "R", "E", "D">>,
      <<"g", "r", "e", "e", "n", " ", "r", "e", "d">>,
      <<"G", "r", "e", "e", "n", " ", "a", "m", "b", "e", "r">>,
      <<"b", "o", "r", "e", "d">>,
      <<"r", " ", "e", "d">>,
      <<"g", "r", "e", "y">>,
      <<"o", "k">>,
      <<" ">>,
      <<>> }

ModelOutcomes == {CallError, Malformed} \cup { Reply(x) : x \in ReplyTexts }

\* what the model call of a classification can do in the handler runs
ClassifyOutcomes ==
    { CallError, Malformed,
      Reply(<<"R", "E", "D">>),
      Reply(<<" ", "A", "m", "b", "e", "r", "\n">>),
      Reply(<<"G", "r", "e", "e", "n", ".">>),
      Reply(<<"o", "k">>) }

\* the notes classify_visit_note is called with directly
ClassifierNotes ==
    { <<>>,
      <<" ">>,
      <<"\t", "\n">>,
      <<"\f">>,
      <<"o", "k">>,
      <<" ", "h", "i", " ">>,
      <<"f", "e", "l", "l">> }

KwRed == <<"r", "e", "d">>
KwAmber == <<"a", "m", "b", "e", "r">>
KwGreen == <<"g", "r", "e", "e", "n">>

MapReply_AmberFirst(text) ==
    LET response_text == lower(strip(text))
    IN  IF Contains(response_text, KwAmber) THEN "amber"
        ELSE IF Contains(response_text, KwRed) THEN "red"
        ELSE IF Contains(response_text, KwGreen) THEN "green"
        ELSE "amber"

\* the if/elif chain that maps the reply text to a category
MapReply(text) ==
    LET response_text == lower(strip(text))
    IN  IF Contains(response_text, KwRed) THEN "red"
        ELSE IF Contains(response_text, KwAmber) THEN "amber"
        ELSE IF Contains(response_text, KwGreen) THEN "green"
        ELSE "amber"

\* "not note or not note.strip()"
IsBlank(note) == note = <<>> \/ strip(note) = <<>>

classify_visit_note_NoShortCircuit(note, outcome) ==
    IF outcome.kind = "ok"
    THEN [category |-> MapReply(outcome.text), invocations |-> 1, failed |-> FALSE]
    ELSE [category |-> "amber", invocations |-> 1, failed |-> TRUE]

classify_visit_note_Retry(note, outcome) ==
    IF IsBlank(note)
    THEN [category |-> "green", invocations |-> 0, failed |-> FALSE]
    ELSE IF outcome.kind = "ok"
    THEN [category |-> MapReply(outcome.text), invocations |-> 1, failed |-> FALSE]
    ELSE [category |-> "amber", invocations |-> 2, failed |-> TRUE]

\* classify_visit_note(note), with what the one model call did as a parameter:
\* the category returned, the number of invoke_model calls made, and whether
\* the except branch was taken
classify_visit_note(note, outcome) ==
    IF IsBlank(note)
    THEN [category |-> "green", invocations |-> 0, failed |-> FALSE]
    ELSE IF outcome.kind = "ok"
    THEN [category |-> MapReply(outcome.text), invocations |-> 1, failed |-> FALSE]
    ELSE [category |-> "amber", invocations |-> 1, failed |-> TRUE]

-----------------------------------------------------------------------------
(* Object keys and batch identifiers *)

\* value of one hexadecimal digit, -1 when c is none
HexVal(c) ==
    IF IsSpace(c) THEN -1
    ELSE LET o == Ord(c)
         IN  IF o >= 48 /\ o <= 57 THEN o - 48
             ELSE IF o >= 65 /\ o <= 70 THEN o - 55
             ELSE IF o >= 97 /\ o <= 102 THEN o - 87
             ELSE -1

\* urllib.parse.unquote_to_bytes on an ASCII text: %XX becomes the byte XX,
\* an escape that is not two hex digits is left as it is, any other
\* character is its own byte
RECURSIVE unquote_to_bytes(_)
unquote_to_bytes(s) ==
    IF s = <<>> THEN <<>>
    ELSE IF /\ Head(s) = "%"
            /\ Len(s) >= 3
            /\ HexVal(s[2]) >= 0
            /\ HexVal(s[3]) >= 0
         THEN <<16 * HexVal(s[2]) + HexVal(s[3])>>
              \o unquote_to_bytes(SubSeq(s, 4, Len(s)))
         ELSE <<Ord(Head(s))>> \o unquote_to_bytes(Tail(s))

\* the UTF-8 sequence a lead byte opens: how many continuation bytes it
\* needs, the range its first continuation byte must lie in, and the bits of
\* the code point it carries; need = 0 for a byte that opens none
Utf8Lead(b) ==
    IF b >= 194 /\ b <= 223 THEN [need |-> 1, lo |-> 128, hi |-> 191, bits |-> b % 32]
    ELSE IF b = 224 THEN [need |-> 2, lo |-> 160, hi |-> 191, bits |-> b % 16]
    ELSE IF b = 237 THEN [need |-> 2, lo |-> 128, hi |-> 159, bits |-> b % 16]
    ELSE IF b >= 225 /\ b <= 239 THEN [need |-> 2, lo |-> 128, hi |-> 191, bits |-> b % 16]
    ELSE IF b = 240 THEN [need |-> 3, lo |-> 144, hi |-> 191, bits |-> b % 8]
    ELSE IF b = 244 THEN [need |-> 3, lo |-> 128, hi |-> 143, bits |-> b % 8]
    ELSE IF b >= 241 /\ b <= 243 THEN [need |-> 3, lo |-> 128, hi |-> 191, bits |-> b % 8]
    ELSE [need |-> 0, lo |-> 0, hi |-> 0, bits |-> 0]

\* the m-th byte after the lead byte continues the sequence
Utf8Continues(bs, ld, m) ==
    IF m = 1 THEN bs[2] >= ld.lo /\ bs[2] <= ld.hi
    ELSE bs[m + 1] >= 128 /\ bs[m + 1] <= 191

\* how many bytes after the lead byte continue its sequence
Utf8Run(bs, ld) ==
    LET most == IF Len(bs) - 1 < ld.need THEN Len(bs) - 1 ELSE ld.need
        fits == { j \in 0..most : \A m \in 1..j : Utf8Continues(bs, ld, m) }
    IN  CHOOSE j \in fits : \A i \in fits : i <= j

\* the code point of a complete sequence
Utf8CodePoint(bs, ld) ==
    IF ld.need = 1 THEN ld.bits * 64 + (bs[2] % 64)
    ELSE IF ld.need = 2 THEN (ld.bits * 64 + (bs[2] % 64)) * 64 + (bs[3] % 64)
    ELSE ((ld.bits * 64 + (bs[2] % 64)) * 64 + (bs[3] % 64)) * 64 + (bs[4] % 64)

\* bytes.decode('utf-8', errors='replace'), as code points: a byte that
\* opens no sequence, and the valid part of a sequence that is cut short,
\* become U+FFFD (65533)
RECURSIVE utf8_decode(_)
utf8_decode(bs) ==
    IF bs = <<>> THEN <<>>
    ELSE IF Head(bs) < 128 THEN <<Head(bs)>> \o utf8_decode(Tail(bs))
    ELSE CHOOSE points \in
             { IF ld.need = 0 THEN <<65533>> \o utf8_decode(Tail(bs))
               ELSE IF Utf8Run(bs, ld) = ld.need
               THEN <<Utf8CodePoint(bs, ld)>>
                    \o utf8_decode(SubSeq(bs, ld.need + 2, Len(bs)))
               ELSE <<65533>> \o utf8_decode(SubSeq(bs, Utf8Run(bs, ld) + 2, Len(bs))) :
               ld \in { Utf8Lead(Head(bs)) } } : TRUE

\* urllib.parse.unquote on an ASCII text: the escapes are decoded to bytes
\* and the bytes are read as UTF-8, errors replaced
unquote(s) ==
    CHOOSE text \in { [i \in 1..Len(points) |-> Chr(points[i])] :
                         points \in { utf8_decode(bs) : bs \in { unquote_to_bytes(s) } } } :
        TRUE

\* urllib.parse.unquote_plus: '+' becomes a space, then unquote
unquote_plus(s) ==
    CHOOSE text \in { unquote(spaced) :
                         spaced \in { [i \in 1..Len(s) |-> IF s[i] = "+" THEN " "
                                                                   ELSE s[i]] } } : TRUE

\* str.rfind(c): 0-based index of the last c, -1 when there is none
rfind(s, c) ==
    IF \E i \in 1..Len(s) : s[i] = c
    THEN (CHOOSE i \in 1..Len(s) : s[i] = c /\ \A j \in (i + 1)..Len(s) : s[j] # c) - 1
    ELSE -1

\* os.path.splitext(p)[0] (posixpath): cut at the last dot of the last path
\* component, unless that component has only leading dots before it
splitext_root(p) ==
    LET sepIndex == rfind(p, "/")
        dotIndex == rfind(p, ".")
    IN  IF /\ dotIndex > sepIndex
           /\ \E f \in (sepIndex + 1)..(dotIndex - 1) : p[f + 1] # "."
        THEN SubSeq(p, 1, dotIndex)
        ELSE p

\* the batch id both handlers derive from the notification's object key
BatchIdOf(rawkey) ==
    CHOOSE root \in { splitext_root(key) : key \in { unquote_plus(rawkey) } } : TRUE

\* object keys as they appear (URL-encoded) in the notifications
Keys ==
    { <<"b", "1", ".", "j", "s", "o", "n">>,
      <<"n", "+", "%", "3", "2">> }

-----------------------------------------------------------------------------
(* Visit records and batch contents *)

TxtA == JStr(<<"A">>)
TxtB == JStr(<<"B">>)

VisitRecords ==
    { JObj([client |-> TxtA, care_pro |-> JStr(<<"P">>),
       visit_date |-> JStr(<<"0", "2">>), note |-> JStr(<<"o", "k">>)]),
      JObj([client |-> TxtA,
       visit_date |-> JStr(<<"0", "1">>), note |-> JStr(<<" ", "h", "i", " ">>)]),
      JObj([client |-> TxtA, care_pro |-> JStr(<<"P">>),
       visit_date |-> JStr(<<"0", "3">>), note |-> JStr(<<" ", "\f", "\n">>)]),
      JObj([client |-> TxtA, care_pro |-> JStr(<<"P">>),
       visit_date |-> JStr(<<"0", "2">>), note |-> JStr(<<>>)]),
      JObj([client |-> TxtB, care_pro |-> JStr(<<"Q">>),
       visit_date |-> JStr(<<"0", "1">>), note |-> JStr(<<"u", "p">>)]),
      JObj([client |-> TxtB,
       visit_date |-> JStr(<<"0", "2">>), note |-> JNum(<<"5">>)]),
      JObj([t |-> JStr(<<"x">>), visit_date |-> JNum(<<"9">>),
            note |-> JStr(<<"g", "o">>)]),
      JObj([client |-> JObj(<<>>), note |-> JStr(<<"o", "k">>)]),
      JObj([client |-> TxtB, care_pro |-> JStr(<<"Q">>),
       visit_date |-> JStr(<<"0", "3">>)]),
      JNum(<<"7">>) }

\* all sequences over S of length at most n
SeqsUpTo(S, n) == UNION { [1..k -> S] : k \in 0..n }

\* what fetching and parsing one object can give: get_object raises, the
\* content is no JSON, the content is a JSON number, boolean or null
\* ("scalar"), a JSON text (its characters), a JSON object (its keys, in
\* order), or a JSON list (its elements)
FetchOutcomes ==
    { [kind |-> "fetch_error", value |-> <<>>],
      [kind |-> "bad_json", value |-> <<>>],
      [kind |-> "scalar", value |-> <<>>],
      [kind |-> "text", value |-> <<>>],
      [kind |-> "text", value |-> <<"a", "b">>],
      [kind |-> "object", value |-> <<>>],
      [kind |-> "object", value |-> << <<"a">> >>] }
    \cup { [kind |-> "list", value |-> b] : b \in SeqsUpTo(VisitRecords, MaxRecs) }

\* len() works on the parsed content: a list, a text or an object
Sized(fo) == fo.kind \in {"list", "text", "object"}

\* what "for ... in records" and enumerate(records) go through: the elements
\* of a list, the characters of a text, the keys of an object
Elements(fo) ==
    IF fo.kind = "text" THEN [i \in 1..Len(fo.value) |-> JStr(<<fo.value[i]>>)]
    ELSE IF fo.kind = "object" THEN [i \in 1..Len(fo.value) |-> JStr(fo.value[i])]
    ELSE fo.value

\* the object contents used when whole events are run: no object, no JSON, a
\* scalar, a text, an object, an empty list, one record with a note, and a
\* record with a note followed by one with a whitespace-only note
ObjectOutcomes ==
    { fo \in FetchOutcomes :
        \/ fo.kind # "list"
        \/ fo.value \in
             { <<>>,
               <<JObj([client |-> TxtA, care_pro |-> JStr(<<"P">>),
                  visit_date |-> JStr(<<"0", "2">>), note |-> JStr(<<"o", "k">>)])>>,
               <<JObj([client |-> TxtA, care_pro |-> JStr(<<"P">>),
                  visit_date |-> JStr(<<"0", "2">>), note |-> JStr(<<"o", "k">>)]),
                 JObj([client |-> TxtA, care_pro |-> JStr(<<"P">>),
                  visit_date |-> JStr(<<"0", "3">>), note |-> JStr(<<" ", "\f", "\n">>)])>> } }

\* the text of a record's note when the worker can read one:
\* visit_record.get('note', '') on a dict, holding a str
HasTextNote(r) == IsObject(r) /\ Get(r, "note", JStr(<<>>)).t = "str"
NoteText(r) == Get(r, "note", JStr(<<>>)).s

-----------------------------------------------------------------------------
(* lambda-classify-visits: the work item *)

\* a worker's return value is None (no element) or one value
None == <<>>
Some(x) == <<x>>

process_record_NoSkip(args, outcome) ==
    IF ~HasTextNote(args.visit_record)
    THEN [value |-> None, why |-> "error", invocations |-> 0, failed |-> FALSE]
    ELSE LET note_text == NoteText(args.visit_record)
             c == classify_visit_note(note_text, outcome)
         IN  [value |-> Some([item |->
                  [id |-> StrNat(args.idx),
                   batch_id |-> args.batch_id,
                   ai_classification |-> c.category,
                   client |-> PyStr(Get(args.visit_record, "client", JStr(<<>>))),
                   care_pro |-> PyStr(Get(args.visit_record, "care_pro", JStr(<<>>))),
                   visit_date |-> PyStr(Get(args.visit_record, "visit_date", JStr(<<>>))),
                   note |-> note_text],
                  classification |-> c.category]),
              why |-> "item", invocations |-> c.invocations, failed |-> c.failed]

process_record_ItemOnError(args, outcome) ==
    IF ~HasTextNote(args.visit_record)
    THEN [value |-> Some([item |->
             [id |-> StrNat(args.idx),
              batch_id |-> args.batch_id,
              ai_classification |-> "amber",
              client |-> <<>>,
              care_pro |-> <<>>,
              visit_date |-> <<>>,
              note |-> <<>>],
             classification |-> "amber"]),
          why |-> "item", invocations |-> 0, failed |-> FALSE]
    ELSE LET note_text == NoteText(args.visit_record)
             c == classify_visit_note(note_text, outcome)
         IN  IF strip(note_text) = <<>>
             THEN [value |-> None, why |-> "skipped", invocations |-> 0,
                   failed |-> FALSE]
             ELSE [value |-> Some([item |->
                      [id |-> StrNat(args.idx),
                       batch_id |-> args.batch_id,
                       ai_classification |-> c.category,
                       client |-> PyStr(Get(args.visit_record, "client", JStr(<<>>))),
                       care_pro |-> PyStr(Get(args.visit_record, "care_pro", JStr(<<>>))),
                       visit_date |-> PyStr(Get(args.visit_record, "visit_date", JStr(<<>>))),
                       note |-> note_text],
                      classification |-> c.category]),
                   why |-> "item", invocations |-> c.invocations, failed |-> c.failed]

\* process_record(args), with what its model call did as a parameter.  value
\* is None or (item, classification); why tells the three ways of returning
\* apart: "item", "skipped" (empty note) or "error" (the except branch, taken
\* when the record is no dict or its note has no strip())
process_record(args, outcome) ==
    IF ~HasTextNote(args.visit_record)
    THEN [value |-> None, why |-> "error", invocations |-> 0, failed |-> FALSE]
    ELSE LET note_text == NoteText(args.visit_record)
             c == classify_visit_note(note_text, outcome)
         IN  IF strip(note_text) = <<>>
             THEN [value |-> None, why |-> "skipped", invocations |-> 0,
                   failed |-> FALSE]
             ELSE [value |-> Some([item |->
                      [id |-> StrNat(args.idx),
                       batch_id |-> args.batch_id,
                       ai_classification |-> c.category,
                       client |-> PyStr(Get(args.visit_record, "client", JStr(<<>>))),
                       care_pro |-> PyStr(Get(args.visit_record, "care_pro", JStr(<<>>))),
                       visit_date |-> PyStr(Get(args.visit_record, "visit_date", JStr(<<>>))),
                       note |-> note_text],
                      classification |-> c.category]),
                   why |-> "item", invocations |-> c.invocations, failed |-> c.failed]

ClassifyTasks_IdxZero(recs, bid) ==
    [i \in 1..Len(recs) |-> [idx |-> 0, visit_record |-> recs[i], batch_id |-> bid]]

ClassifyTasks_FromOne(recs, bid) ==
    [i \in 1..Len(recs) |-> [idx |-> i, visit_record |-> recs[i], batch_id |-> bid]]

\* tasks = [(idx, visit_record, extracted_batch_id) for idx, visit_record in
\* enumerate(records)]
ClassifyTasks(recs, bid) ==
    [i \in 1..Len(recs) |-> [idx |-> i - 1, visit_record |-> recs[i], batch_id |-> bid]]

-----------------------------------------------------------------------------
(* lambda-summarise-visits: the summariser and the work item *)

NoSummary ==
    <<"N", "o", " ", "s", "u", "m", "m", "a", "r", "y", " ",
      "a", "v", "a", "i", "l", "a", "b", "l", "e", ".">>

SummaryUnavailable ==
    <<"S", "u", "m", "m", "a", "r", "y", " ", "u", "n", "a", "v", "a", "i", "l",
      "a", "b", "l", "e", " ", "d", "u", "e", " ", "t", "o", " ", "a", "n", " ",
      "e", "r", "r", "o", "r", ".">>

\* what the model call of a summary can do in the handler runs
SummaryOutcomes ==
    { CallError, Malformed, Reply(<<" ", "o", "k", "\n">>), Reply(<<>>) }

summarise_notes_Untrimmed(notes, outcome) ==
    IF notes = <<>>
    THEN [summary |-> NoSummary, invocations |-> 0, failed |-> FALSE]
    ELSE IF outcome.kind = "ok"
    THEN [summary |-> outcome.text, invocations |-> 1, failed |-> FALSE]
    ELSE [summary |-> SummaryUnavailable, invocations |-> 1, failed |-> TRUE]

\* summarise_notes(notes), with what its model call did as a parameter
summarise_notes(notes, outcome) ==
    IF notes = <<>>
    THEN [summary |-> NoSummary, invocations |-> 0, failed |-> FALSE]
    ELSE IF outcome.kind = "ok"
    THEN [summary |-> strip(outcome.text), invocations |-> 1, failed |-> FALSE]
    ELSE [summary |-> SummaryUnavailable, invocations |-> 1, failed |-> TRUE]

\* the sort key r.get("visit_date", ""): the value itself, not its text
DateKey(r) == Get(r, "visit_date", JStr(<<>>))

\* what sorted() gives: the sorted list, or the TypeError of a comparison
SortedAs(v) == [raised |-> FALSE, value |-> v]
SortTypeError == [raised |-> TRUE, value |-> <<>>]

RECURSIVE InsertByDate_BeforeEqual(_, _)
InsertByDate_BeforeEqual(r, s) ==
    IF s = <<>> THEN SortedAs(<<r>>)
    ELSE IF ~Comparable(DateKey(r), DateKey(Head(s))) THEN SortTypeError
    ELSE IF ~ValueLess(DateKey(Head(s)), DateKey(r)) THEN SortedAs(<<r>> \o s)
    ELSE LET rest == InsertByDate_BeforeEqual(r, Tail(s))
         IN  IF rest.raised THEN rest ELSE SortedAs(<<Head(s)>> \o rest.value)

\* insert r into the sorted s behind every element whose key is not greater
\* (keeps sorted() stable); the comparison of r with an element of s raises
\* when the two keys are not comparable
RECURSIVE InsertByDate(_, _)
InsertByDate(r, s) ==
    IF s = <<>> THEN SortedAs(<<r>>)
    ELSE IF ~Comparable(DateKey(r), DateKey(Head(s))) THEN SortTypeError
    ELSE IF ValueLess(DateKey(r), DateKey(Head(s))) THEN SortedAs(<<r>> \o s)
    ELSE LET rest == InsertByDate(r, Tail(s))
         IN  IF rest.raised THEN rest ELSE SortedAs(<<Head(s)>> \o rest.value)

\* sorted(client_records, key=lambda r: r.get("visit_date", "")): a list of
\* one record is sorted without a comparison; with two or more, sorted()
\* raises as soon as two of the keys are not comparable
RECURSIVE SortedByDate(_)
SortedByDate(s) ==
    IF s = <<>> THEN SortedAs(<<>>)
    ELSE LET before == SortedByDate(SubSeq(s, 1, Len(s) - 1))
         IN  IF before.raised THEN before ELSE InsertByDate(s[Len(s)], before.value)

\* max(r.get("visit_date", "") for r in sorted_records), on a non-empty list
\* that sorted() accepted: the first of the greatest values, as it is
RECURSIVE MaxDate(_)
MaxDate(s) ==
    IF Len(s) = 1 THEN DateKey(s[1])
    ELSE LET m == MaxDate(SubSeq(s, 1, Len(s) - 1))
         IN  IF ValueLess(m, DateKey(s[Len(s)])) THEN DateKey(s[Len(s)]) ELSE m

\* [r.get("note", "").strip() for r in sorted_records if r.get("note", "").strip()]
RECURSIVE StrippedNotes(_)
StrippedNotes(s) ==
    IF s = <<>> THEN <<>>
    ELSE (IF strip(NoteText(Head(s))) # <<>> THEN <<strip(NoteText(Head(s)))>> ELSE <<>>)
         \o StrippedNotes(Tail(s))

process_client_NoSkip(args, outcome) ==
    IF \/ SortedByDate(args.client_records).raised
       \/ \E i \in 1..Len(args.client_records) : ~HasTextNote(args.client_records[i])
    THEN [value |-> None, why |-> "error", invocations |-> 0, failed |-> FALSE,
          notes |-> <<>>]
    ELSE LET sorted_records == SortedByDate(args.client_records).value
             notes == StrippedNotes(sorted_records)
             sm == summarise_notes(notes, outcome)
         IN  [value |-> Some(
                 [batch_id |-> args.batch_id,
                  client |-> args.client_name,
                  latest_visit_date |-> MaxDate(sorted_records),
                  visit_count |-> Len(sorted_records),
                  summary |-> sm.summary]),
              why |-> "item", invocations |-> sm.invocations,
              failed |-> sm.failed, notes |-> notes]

process_client_CountNotes(args, outcome) ==
    IF \/ SortedByDate(args.client_records).raised
       \/ \E i \in 1..Len(args.client_records) : ~HasTextNote(args.client_records[i])
    THEN [value |-> None, why |-> "error", invocations |-> 0, failed |-> FALSE,
          notes |-> <<>>]
    ELSE LET sorted_records == SortedByDate(args.client_records).value
             notes == StrippedNotes(sorted_records)
             sm == summarise_notes(notes, outcome)
         IN  IF notes = <<>>
             THEN [value |-> None, why |-> "skipped", invocations |-> 0,
                   failed |-> FALSE, notes |-> <<>>]
             ELSE [value |-> Some(
                      [batch_id |-> args.batch_id,
                       client |-> args.client_name,
                       latest_visit_date |-> MaxDate(sorted_records),
                       visit_count |-> Len(notes),
                       summary |-> sm.summary]),
                   why |-> "item", invocations |-> sm.invocations,
                   failed |-> sm.failed, notes |-> notes]

process_client_LastNoteDate(args, outcome) ==
    IF \/ SortedByDate(args.client_records).raised
       \/ \E i \in 1..Len(args.client_records) : ~HasTextNote(args.client_records[i])
    THEN [value |-> None, why |-> "error", invocations |-> 0, failed |-> FALSE,
          notes |-> <<>>]
    ELSE LET sorted_records == SortedByDate(args.client_records).value
             notes == StrippedNotes(sorted_records)
             sm == summarise_notes(notes, outcome)
         IN  IF notes = <<>>
             THEN [value |-> None, why |-> "skipped", invocations |-> 0,
                   failed |-> FALSE, notes |-> <<>>]
             ELSE [value |-> Some(
                      [batch_id |-> args.batch_id,
                       client |-> args.client_name,
                       latest_visit_date |->
                           DateKey(SelectSeq(sorted_records,
                               LAMBDA r : strip(NoteText(r)) # <<>>)[Len(notes)]),
                       visit_count |-> Len(sorted_records),
                       summary |-> sm.summary]),
                   why |-> "item", invocations |-> sm.invocations,
                   failed |-> sm.failed, notes |-> notes]

\* process_client(args), with what its model call did as a parameter.  The
\* except branch is taken when sorted() raises or a record's note has no
\* strip()
process_client(args, outcome) ==
    IF \/ SortedByDate(args.client_records).raised
       \/ \E i \in 1..Len(args.client_records) : ~HasTextNote(args.client_records[i])
    THEN [value |-> None, why |-> "error", invocations |-> 0, failed |-> FALSE,
          notes |-> <<>>]
    ELSE LET sorted_records == SortedByDate(args.client_records).value
             notes == StrippedNotes(sorted_records)
             sm == summarise_notes(notes, outcome)
         IN  IF notes = <<>>
             THEN [value |-> None, why |-> "skipped", invocations |-> 0,
                   failed |-> FALSE, notes |-> <<>>]
             ELSE [value |-> Some(
                      [batch_id |-> args.batch_id,
                       client |-> args.client_name,
                       latest_visit_date |-> MaxDate(sorted_records),
                       visit_count |-> Len(sorted_records),
                       summary |-> sm.summary]),
                   why |-> "item", invocations |-> sm.invocations,
                   failed |-> sm.failed, notes |-> notes]

\* rec.get("client", "Unknown")
ClientOf(rec) == Get(rec, "client", JStr(<<"U", "n", "k", "n", "o", "w", "n">>))

\* the grouping loop ended with these keys, or raised
GroupedAs(names) == [raised |-> FALSE, value |-> names]
GroupError == [raised |-> TRUE, value |-> <<>>]

\* rec.get raises AttributeError on a record that is no dict, and
\* client_map.setdefault raises TypeError on a client that cannot be hashed
Ungroupable(rec) == ~IsObject(rec) \/ ~Hashable(ClientOf(rec))

RECURSIVE ClientNames_NoDedup(_)
ClientNames_NoDedup(recs) ==
    IF recs = <<>> THEN GroupedAs(<<>>)
    ELSE LET before == ClientNames_NoDedup(SubSeq(recs, 1, Len(recs) - 1))
         IN  IF before.raised \/ Ungroupable(recs[Len(recs)]) THEN GroupError
             ELSE GroupedAs(Append(before.value, ClientOf(recs[Len(recs)])))

\* the grouping loop: the keys of client_map in insertion order, where a
\* record whose client equals a key already there joins that key's group;
\* the loop raises at the first record that cannot be grouped
RECURSIVE ClientNames(_)
ClientNames(recs) ==
    IF recs = <<>> THEN GroupedAs(<<>>)
    ELSE LET before == ClientNames(SubSeq(recs, 1, Len(recs) - 1))
         IN  IF before.raised \/ Ungroupable(recs[Len(recs)]) THEN GroupError
             ELSE IF \E i \in 1..Len(before.value) :
                        ValueEq(before.value[i], ClientOf(recs[Len(recs)]))
             THEN before
             ELSE GroupedAs(Append(before.value, ClientOf(recs[Len(recs)])))

\* client_map[c]: the records of client c in batch order
ClientRecords(recs, c) == SelectSeq(recs, LAMBDA r : ValueEq(ClientOf(r), c))

\* tasks = [(idx, client_name, records, batch_id) for idx, (client_name,
\* records) in enumerate(client_map.items())]
SummariseTasks(recs, bid) ==
    LET names == ClientNames(recs).value
    IN  [i \in 1..Len(names) |->
            [idx |-> i - 1, client_name |-> names[i],
             client_records |-> ClientRecords(recs, names[i]), batch_id |-> bid]]

-----------------------------------------------------------------------------
(* The bulk persister (the same function in both handlers) *)

\* what the table does with one batch writer over n items: it takes them
\* all, or it raises after having taken the first `accepted` of them
StoreOutcomes(n) ==
    { [error |-> FALSE, accepted |-> n] }
    \cup { [error |-> TRUE, accepted |-> k] : k \in 0..n }

batch_write_to_dynamodb_Partial(items_to_write, so) ==
    IF items_to_write = <<>>
    THEN [returned |-> 0, written |-> <<>>, calls |-> 0, error |-> FALSE]
    ELSE IF so.error
    THEN [returned |-> so.accepted, written |-> SubSeq(items_to_write, 1, so.accepted),
          calls |-> 1, error |-> TRUE]
    ELSE [returned |-> Len(items_to_write), written |-> items_to_write,
          calls |-> 1, error |-> FALSE]

batch_write_to_dynamodb_CountOnError(items_to_write, so) ==
    IF items_to_write = <<>>
    THEN [returned |-> 0, written |-> <<>>, calls |-> 0, error |-> FALSE]
    ELSE IF so.error
    THEN [returned |-> Len(items_to_write),
          written |-> SubSeq(items_to_write, 1, so.accepted),
          calls |-> 1, error |-> TRUE]
    ELSE [returned |-> Len(items_to_write), written |-> items_to_write,
          calls |-> 1, error |-> FALSE]

batch_write_to_dynamodb_NoGuard(items_to_write, so) ==
    IF so.error
    THEN [returned |-> 0, written |-> SubSeq(items_to_write, 1, so.accepted),
          calls |-> 1, error |-> TRUE]
    ELSE [returned |-> Len(items_to_write), written |-> items_to_write,
          calls |-> 1, error |-> FALSE]

\* batch_write_to_dynamodb(items_to_write), with what the table did as a
\* parameter: the count returned, the items the table took, and the number
\* of batch writers opened
batch_write_to_dynamodb(items_to_write, so) ==
    IF items_to_write = <<>>
    THEN [returned |-> 0, written |-> <<>>, calls |-> 0, error |-> FALSE]
    ELSE IF so.error
    THEN [returned |-> 0, written |-> SubSeq(items_to_write, 1, so.accepted),
          calls |-> 1, error |-> TRUE]
    ELSE [returned |-> Len(items_to_write), written |-> items_to_write,
          calls |-> 1, error |-> FALSE]

\* the table's primary key of an item: (id, batch_id) in the care-log table,
\* (client, batch_id) in the summaries table
PrimaryKey(item) ==
    IF "id" \in DOMAIN item THEN <<item.id, item.batch_id>>
    ELSE <<item.client, item.batch_id>>

-----------------------------------------------------------------------------
(* Triggering events *)

\* event.get('Records', [])
EventRecords(e) == IF e.has_records THEN e.Records ELSE <<>>

\* a top-level record of the classify event: an SNS record whose message
\* holds S3 records (their object keys), or a record without 'Sns'
ClassifyEntries ==
    { [kind |-> "other", s3 |-> <<>>] }
    \cup { [kind |-> "sns", s3 |-> ks] : ks \in SeqsUpTo(Keys, MaxS3) }

\* a top-level record of the summarise event is one S3 record
SummariseEntries == { [kind |-> "s3", s3 |-> <<k>>] : k \in Keys }

\* the bucket/key notifications of an event, in the order they are processed
RECURSIVE Notifications(_)
Notifications(rs) ==
    IF rs = <<>> THEN <<>> ELSE Head(rs).s3 \o Notifications(Tail(rs))

ClassifyEvents ==
    { [has_records |-> TRUE, Records |-> rs] :
        rs \in { q \in SeqsUpTo(ClassifyEntries, MaxTop) :
                   Len(Notifications(q)) <= MaxS3 } }

SummariseEvents ==
    { [has_records |-> TRUE, Records |-> rs] :
        rs \in { q \in SeqsUpTo(SummariseEntries, MaxTop) :
                   Len(Notifications(q)) <= MaxS3 } }
    \cup { [has_records |-> FALSE, Records |-> <<>>] }

\* the S3 records of the top-level record the outer loop is at
CurrentS3 == IF top = 0 THEN <<>> ELSE EventRecords(event)[top].s3

-----------------------------------------------------------------------------
(* State *)

NoCounts == [red |-> 0, amber |-> 0, green |-> 0]
NoWrite == [calls |-> 0, error |-> FALSE, accepted |-> 0]
NoLog == [logged |-> FALSE]
NoAck == [statusCode |-> 0]
NoCall == [state |-> "idle"]

Queued == [status |-> "queued"]
Running == [status |-> "running"]

HandlerIdle ==
    /\ pc = "loop"
    /\ top = 0
    /\ sub = 0
    /\ batch_id = <<>>
    /\ records = <<>>
    /\ tasks = <<>>
    /\ results = <<>>
    /\ items = <<>>
    /\ counts = NoCounts
    /\ success_count = 0
    /\ summary_log = NoLog
    /\ store = {}
    /\ wr = NoWrite
    /\ outcomes = <<>>
    /\ ack = NoAck

Init ==
    /\ handler \in {"classify", "summarise"}
    /\ event \in (IF handler = "classify" THEN ClassifyEvents ELSE SummariseEvents)
    /\ HandlerIdle
    /\ cv = NoCall

-----------------------------------------------------------------------------
(* lambda_handler of both lambdas *)

\* the locals of one loop iteration, as they are before the iteration starts
\* and after it is left
FreshLocals ==
    /\ batch_id' = <<>>
    /\ records' = <<>>
    /\ tasks' = <<>>
    /\ results' = <<>>
    /\ items' = <<>>
    /\ counts' = NoCounts
    /\ success_count' = 0
    /\ summary_log' = NoLog
    /\ wr' = NoWrite

\* the outer "for record in event[...]" takes the next top-level record
NextRecord ==
    /\ pc = "loop"
    /\ sub = Len(CurrentS3)
    /\ top < Len(EventRecords(event))
    /\ top' = top + 1
    /\ sub' = 0
    /\ FreshLocals
    /\ UNCHANGED <<handler, event, pc, store, outcomes, ack, cv>>

\* the loop takes the next S3 record: bucket and key are read
BeginNotification ==
    /\ pc = "loop"
    /\ sub < Len(CurrentS3)
    /\ sub' = sub + 1
    /\ pc' = "fetch"
    /\ FreshLocals
    /\ UNCHANGED <<handler, event, top, store, outcomes, ack, cv>>

\* the try block up to executor.map: the batch id, get_object, json.loads,
\* the tasks; or one of the two except branches.  In the summarise handler
\* the grouping loop may raise after visit_records was assigned: the
\* notification fails with the parsed records and no task.  outs is what
\* the object store may answer
FetchFrom(outs) ==
    /\ pc = "fetch"
    /\ \E fo \in outs :
        LET bid == BatchIdOf(CurrentS3[sub])
            parsed == Sized(fo)
            recs == Elements(fo)
            tk == IF handler = "classify" THEN ClassifyTasks(recs, bid)
                  ELSE SummariseTasks(recs, bid)
        IN  /\ batch_id' = bid
            /\ IF ~parsed
               THEN /\ pc' = "failed"
                    /\ UNCHANGED <<records, tasks, results, outcomes>>
               ELSE IF handler = "summarise" /\ ClientNames(recs).raised
               THEN /\ pc' = "failed"
                    /\ records' = recs
                    /\ UNCHANGED <<tasks, results, outcomes>>
               ELSE IF handler = "classify" /\ recs = <<>>
               THEN /\ pc' = "loop"
                    /\ records' = recs
                    /\ outcomes' = Append(outcomes, "empty")
                    /\ UNCHANGED <<tasks, results>>
               ELSE /\ pc' = "pool"
                    /\ records' = recs
                    /\ tasks' = tk
                    /\ results' = [i \in 1..Len(tk) |-> Queued]
                    /\ UNCHANGED outcomes
    /\ UNCHANGED <<handler, event, top, sub, items, counts, success_count,
                   summary_log, store, wr, ack, cv>>

\* the object holds any of the modelled contents
Fetch == FetchFrom(FetchOutcomes)

\* the object holds one of the contents used when whole events are run
FetchObject == FetchFrom(ObjectOutcomes)

Continue_Retry ==
    /\ pc = "failed"
    /\ pc' = "fetch"
    /\ UNCHANGED <<handler, event, top, sub, batch_id, records, tasks, results,
                   items, counts, success_count, summary_log, store, wr, outcomes,
                   ack, cv>>

Continue_Reraise ==
    /\ pc = "failed"
    /\ pc' = "raised"
    /\ outcomes' = Append(outcomes, "failed")
    /\ UNCHANGED <<handler, event, top, sub, batch_id, records, tasks, results,
                   items, counts, success_count, summary_log, store, wr, ack, cv>>

\* the except branch logs and continues with the next S3 record
Continue ==
    /\ pc = "failed"
    /\ pc' = "loop"
    /\ outcomes' = Append(outcomes, "failed")
    /\ UNCHANGED <<handler, event, top, sub, batch_id, records, tasks, results,
                   items, counts, success_count, summary_log, store, wr, ack, cv>>

\* a pool thread takes work item i
StartTask(i) ==
    /\ pc = "pool"
    /\ results[i].status = "queued"
    /\ results' = [results EXCEPT ![i] = Running]
    /\ UNCHANGED <<handler, event, pc, top, sub, batch_id, records, tasks, items,
                   counts, success_count, summary_log, store, wr, outcomes, ack, cv>>

\* the thread of work item i returns from process_record / process_client
FinishTask(i) ==
    /\ pc = "pool"
    /\ results[i].status = "running"
    /\ \E outcome \in (IF handler = "classify" THEN ClassifyOutcomes ELSE SummaryOutcomes) :
        LET r == IF handler = "classify" THEN process_record(tasks[i], outcome)
                 ELSE process_client(tasks[i], outcome)
        IN  results' = [results EXCEPT ![i] = [status |-> "done", ret |-> r]]
    /\ UNCHANGED <<handler, event, pc, top, sub, batch_id, records, tasks, items,
                   counts, success_count, summary_log, store, wr, outcomes, ack, cv>>

StartSome == \E i \in DOMAIN results : StartTask(i)

FinishSome == \E i \in DOMAIN results : FinishTask(i)

\* the values that the loop over executor.map's results appends
RECURSIVE Collected(_)
Collected(rs) ==
    IF rs = <<>> THEN <<>>
    ELSE Collected(SubSeq(rs, 1, Len(rs) - 1)) \o rs[Len(rs)].ret.value

Tally_RedAlsoAmber(vals, c) ==
    Cardinality({ i \in 1..Len(vals) :
                    \/ vals[i].classification = c
                    \/ (c = "amber" /\ vals[i].classification = "red") })

\* the number of collected (item, classification) pairs of category c
Tally(vals, c) == Cardinality({ i \in 1..Len(vals) : vals[i].classification = c })

Collect_NoWait ==
    /\ pc = "pool"
    /\ LET vals == Collected(SelectSeq(results, LAMBDA r : r.status = "done"))
       IN  IF handler = "classify"
           THEN /\ items' = [i \in 1..Len(vals) |-> vals[i].item]
                /\ counts' = [c \in {"red", "amber", "green"} |-> Tally(vals, c)]
           ELSE /\ items' = vals
                /\ UNCHANGED counts
    /\ pc' = "persist"
    /\ UNCHANGED <<handler, event, top, sub, batch_id, records, tasks, results,
                   success_count, summary_log, store, wr, outcomes, ack, cv>>

\* the with block ends once every worker has returned; then the loop over the
\* results fills items_for_dynamodb and classification_counts
Collect ==
    /\ pc = "pool"
    /\ \A i \in 1..Len(results) : results[i].status = "done"
    /\ LET vals == Collected(results)
       IN  IF handler = "classify"
           THEN /\ items' = [i \in 1..Len(vals) |-> vals[i].item]
                /\ counts' = [c \in {"red", "amber", "green"} |-> Tally(vals, c)]
           ELSE /\ items' = vals
                /\ UNCHANGED counts
    /\ pc' = "persist"
    /\ UNCHANGED <<handler, event, top, sub, batch_id, records, tasks, results,
                   success_count, summary_log, store, wr, outcomes, ack, cv>>

Persist_InFinally ==
    /\ pc \in {"persist", "failed"}
    /\ \E so \in StoreOutcomes(Len(items)) :
        LET w == batch_write_to_dynamodb(items, so)
        IN  /\ success_count' = w.returned
            /\ store' = store \cup { PrimaryKey(w.written[i]) : i \in 1..Len(w.written) }
            /\ wr' = [calls |-> wr.calls + w.calls, error |-> w.error,
                      accepted |-> Len(w.written)]
    /\ pc' = "report"
    /\ UNCHANGED <<handler, event, top, sub, batch_id, records, tasks, results,
                   items, counts, summary_log, outcomes, ack, cv>>

\* success_count = batch_write_to_dynamodb(items_for_dynamodb)
Persist ==
    /\ pc = "persist"
    /\ \E so \in StoreOutcomes(Len(items)) :
        LET w == batch_write_to_dynamodb(items, so)
        IN  /\ success_count' = w.returned
            /\ store' = store \cup { PrimaryKey(w.written[i]) : i \in 1..Len(w.written) }
            /\ wr' = [calls |-> wr.calls + w.calls, error |-> w.error,
                      accepted |-> Len(w.written)]
    /\ pc' = "report"
    /\ UNCHANGED <<handler, event, top, sub, batch_id, records, tasks, results,
                   items, counts, summary_log, outcomes, ack, cv>>

\* the processing summary is logged
Report ==
    /\ pc = "report"
    /\ LET record_count == Len(records)
           processed_count == Len(items)
       IN  summary_log' =
             IF handler = "classify"
             THEN [logged |-> TRUE,
                   saved |-> success_count,
                   total |-> record_count,
                   failed_classification |-> record_count - processed_count,
                   failed_write |-> IF success_count < processed_count
                                    THEN processed_count - success_count ELSE 0]
             ELSE [logged |-> TRUE,
                   summarised |-> processed_count,
                   written |-> success_count]
    /\ outcomes' = Append(outcomes, "reported")
    /\ pc' = "loop"
    /\ UNCHANGED <<handler, event, top, sub, batch_id, records, tasks, results,
                   items, counts, success_count, store, wr, ack, cv>>

Return_StatusByOutcome ==
    /\ pc = "loop"
    /\ sub = Len(CurrentS3)
    /\ top = Len(EventRecords(event))
    /\ pc' = "done"
    /\ ack' = [statusCode |-> IF \E i \in 1..Len(outcomes) : outcomes[i] = "failed"
                              THEN 500 ELSE 200,
               message |-> IF handler = "classify" THEN "Processing complete."
                           ELSE "Summarisation complete.",
               processed_objects |-> Len(EventRecords(event))]
    /\ FreshLocals
    /\ UNCHANGED <<handler, event, top, sub, store, outcomes, cv>>

\* both loops are over: the acknowledgment is returned
Return ==
    /\ pc = "loop"
    /\ sub = Len(CurrentS3)
    /\ top = Len(EventRecords(event))
    /\ pc' = "done"
    /\ ack' = [statusCode |-> 200,
               message |-> IF handler = "classify" THEN "Processing complete."
                           ELSE "Summarisation complete.",
               processed_objects |-> Len(EventRecords(event))]
    /\ FreshLocals
    /\ UNCHANGED <<handler, event, top, sub, store, outcomes, cv>>

\* a handler run on any event of the modelled shape
Next ==
    \/ NextRecord
    \/ BeginNotification
    \/ FetchObject
    \/ Continue
    \/ StartSome
    \/ FinishSome
    \/ Collect
    \/ Persist
    \/ Report
    \/ Return

Spec == Init /\ [][Next]_vars

-----------------------------------------------------------------------------
(* A handler run in which a model call may never return *)

\* the model call of work item i never returns: invoke_model has no timeout
\* set, so the pool thread stays in it
HangTask(i) ==
    /\ pc = "pool"
    /\ results[i].status = "running"
    /\ (IF handler = "classify" THEN process_record(tasks[i], CallError)
        ELSE process_client(tasks[i], CallError)).invocations = 1
    /\ results' = [results EXCEPT ![i] = [status |-> "hung"]]
    /\ UNCHANGED <<handler, event, pc, top, sub, batch_id, records, tasks, items,
                   counts, success_count, summary_log, store, wr, outcomes, ack, cv>>

HangSome == \E i \in DOMAIN results : HangTask(i)

NextLive ==
    \/ NextRecord
    \/ BeginNotification
    \/ FetchObject
    \/ Continue
    \/ StartSome
    \/ FinishSome
    \/ HangSome
    \/ Collect
    \/ Persist
    \/ Report
    \/ Return

\* the steps that do not depend on a hanging call
Progress ==
    \/ NextRecord
    \/ BeginNotification
    \/ FetchObject
    \/ Continue
    \/ StartSome
    \/ FinishSome
    \/ Collect
    \/ Persist
    \/ Report
    \/ Return

\* the handler does not stop while it has a step to take: the orchestrating
\* thread runs its next statement, get_object and the batch write return, a
\* queued work item is given a pool thread, and a model call that does not
\* hang returns
Fairness == WF_vars(Progress)

\* the events of these runs name one object key throughout: whether a call
\* returns does not depend on the key
LiveEvents(evs) ==
    { e \in evs :
        \A k \in 1..Len(Notifications(EventRecords(e))) :
            Notifications(EventRecords(e))[k] = <<"b", "1", ".", "j", "s", "o", "n">> }

InitLive ==
    /\ handler \in {"classify", "summarise"}
    /\ event \in (IF handler = "classify" THEN LiveEvents(ClassifyEvents)
                  ELSE LiveEvents(SummariseEvents))
    /\ HandlerIdle
    /\ cv = NoCall

SpecLive == InitLive /\ [][NextLive]_vars /\ Fairness

-----------------------------------------------------------------------------
(* One handler run on an event that names a single object *)

\* the events with exactly one bucket/key notification
ClassifyOneObject(k) ==
    [has_records |-> TRUE, Records |-> <<[kind |-> "sns", s3 |-> <<k>>]>>]

SummariseOneObject(k) ==
    [has_records |-> TRUE, Records |-> <<[kind |-> "s3", s3 |-> <<k>>]>>]

InitBatch ==
    /\ handler \in {"classify", "summarise"}
    /\ event \in (IF handler = "classify" THEN { ClassifyOneObject(k) : k \in Keys }
                  ELSE { SummariseOneObject(k) : k \in Keys })
    /\ HandlerIdle
    /\ cv = NoCall

NextBatch ==
    \/ NextRecord
    \/ BeginNotification
    \/ Fetch
    \/ Continue
    \/ StartSome
    \/ FinishSome
    \/ Collect
    \/ Persist
    \/ Report
    \/ Return

SpecBatch == InitBatch /\ [][NextBatch]_vars

-----------------------------------------------------------------------------
(* classify_visit_note called on its own *)

InitClassifier ==
    /\ handler = "unit"
    /\ event = [has_records |-> FALSE, Records |-> <<>>]
    /\ HandlerIdle
    /\ cv \in { [state |-> "call", note |-> n, outcome |-> o] :
                  n \in ClassifierNotes, o \in ModelOutcomes }

\* classify_visit_note(cv.note) runs and returns
ClassifierCall ==
    /\ handler = "unit"
    /\ cv.state = "call"
    /\ cv' = [state |-> "returned", note |-> cv.note, outcome |-> cv.outcome,
              ret |-> classify_visit_note(cv.note, cv.outcome)]
    /\ UNCHANGED <<handler, event, pc, top, sub, batch_id, records, tasks, results,
                   items, counts, success_count, summary_log, store, wr, outcomes,
                   ack>>

SpecClassifier == InitClassifier /\ [][ClassifierCall]_vars

-----------------------------------------------------------------------------
(* summarise_notes called on its own *)

\* replies of the model to a summarisation prompt
SummaryReplyTexts ==
    { <<"o", "k">>,
      <<" ", "o", "k", "\n">>,
      <<"\f", "a", " ", "b", "\t">>,
      <<"a", " ", " ", "b">>,
      <<" ">>,
      <<>>,
      NoSummary,
      <<" ">> \o SummaryUnavailable }

SummariserOutcomes == {CallError, Malformed} \cup { Reply(x) : x \in SummaryReplyTexts }

\* the notes process_client passes: stripped, non-empty texts in date order
SummariserNotes ==
    SeqsUpTo({ <<"o", "k">>, <<"h", "i">>, <<"u", " ", "p">> }, MaxRecs)

InitSummariser ==
    /\ handler = "unit_summarise"
    /\ event = [has_records |-> FALSE, Records |-> <<>>]
    /\ HandlerIdle
    /\ cv \in { [state |-> "call", notes |-> n, outcome |-> o] :
                  n \in SummariserNotes, o \in SummariserOutcomes }

\* summarise_notes(cv.notes) runs and returns
SummariserCall ==
    /\ handler = "unit_summarise"
    /\ cv.state = "call"
    /\ cv' = [state |-> "returned", notes |-> cv.notes, outcome |-> cv.outcome,
              ret |-> summarise_notes(cv.notes, cv.outcome)]
    /\ UNCHANGED <<handler, event, pc, top, sub, batch_id, records, tasks, results,
                   items, counts, success_count, summary_log, store, wr, outcomes,
                   ack>>

SpecSummariser == InitSummariser /\ [][SummariserCall]_vars

-----------------------------------------------------------------------------
(* process_client called on its own *)

\* records of one client: out of date order, two of the same date with
\* different notes, an empty-looking one, one whose note is no text, one
\* without a visit date, and two whose visit dates are numbers
OneClientRecords ==
    { JObj([client |-> TxtA, visit_date |-> JStr(<<"0", "2">>), note |-> JStr(<<"o", "k">>)]),
      JObj([client |-> TxtA, visit_date |-> JStr(<<"0", "1">>), note |-> JStr(<<" ", "h", "i", " ">>)]),
      JObj([client |-> TxtA, visit_date |-> JStr(<<"0", "2">>), note |-> JStr(<<"n", "o">>)]),
      JObj([client |-> TxtA, visit_date |-> JStr(<<"0", "3">>), note |-> JStr(<<" ", "\f", "\n">>)]),
      JObj([client |-> TxtA, visit_date |-> JStr(<<"0", "2">>), note |-> JNum(<<"5">>)]),
      JObj([client |-> TxtA, note |-> JStr(<<"u", "p">>)]),
      JObj([client |-> TxtA, visit_date |-> JNum(<<"9">>), note |-> JStr(<<"o", "k">>)]),
      JObj([client |-> TxtA, visit_date |-> JNum(<<"1", "0">>), note |-> JStr(<<"n", "o">>)]) }

\* a client group is never empty: setdefault(...).append(rec) creates it
\* with its first record
ClientGroups == SeqsUpTo(OneClientRecords, MaxRecs + 1) \ {<<>>}

InitClient ==
    /\ handler = "unit_client"
    /\ event = [has_records |-> FALSE, Records |-> <<>>]
    /\ HandlerIdle
    /\ cv \in { [state |-> "call",
                  args |-> [idx |-> 0, client_name |-> TxtA, client_records |-> g,
                            batch_id |-> <<"b", "1">>],
                  outcome |-> o] :
                  g \in ClientGroups, o \in SummaryOutcomes }

\* process_client(cv.args) runs and returns
ClientCall ==
    /\ handler = "unit_client"
    /\ cv.state = "call"
    /\ cv' = [state |-> "returned", args |-> cv.args, outcome |-> cv.outcome,
              ret |-> process_client(cv.args, cv.outcome)]
    /\ UNCHANGED <<handler, event, pc, top, sub, batch_id, records, tasks, results,
                   items, counts, success_count, summary_log, store, wr, outcomes,
                   ack>>

SpecClient == InitClient /\ [][ClientCall]_vars

-----------------------------------------------------------------------------
(* The single-record handler (src/lambda_function.py) *)

\* first records of an object as this handler reads them: fields client,
\* carer, date, note; a note that is text, absent or a number; a record that
\* is no JSON object
SingleRecords ==
    { JObj([client |-> TxtA, carer |-> JStr(<<"P">>),
       date |-> JStr(<<"0", "2">>), note |-> JStr(<<"o", "k">>)]),
      JObj([client |-> TxtA, note |-> JStr(<<" ", "\n">>)]),
      JObj([client |-> TxtA, note |-> JStr(<<>>)]),
      JObj([client |-> TxtB, carer |-> JStr(<<"Q">>)]),
      JObj([note |-> JNum(<<"5">>)]),
      JNum(<<"7">>) }

\* what fetching and parsing one object can give in these runs: the three
\* failures, a text, an object, an empty list, one record, or a record
\* followed by another one that holds a note
SingleOutcomes ==
    { fo \in FetchOutcomes : fo.kind # "list" }
    \cup { [kind |-> "list", value |-> <<>>] }
    \cup { [kind |-> "list", value |-> <<r>>] : r \in SingleRecords }
    \cup { [kind |-> "list", value |-> <<r, JObj([note |-> JStr(<<"g", "o">>)])>>] :
             r \in SingleRecords }

\* the object keys of these runs; the empty key is the one whose batch id is
\* empty
SingleKeys == Keys \cup { <<>> }

SingleEvents ==
    { [has_records |-> TRUE, Records |-> rs] :
        rs \in SeqsUpTo({ [kind |-> "s3", s3 |-> <<k>>] : k \in SingleKeys }, MaxTop) }

\* Python truth of a JSON value: "if note_text:"
Truthy(v) ==
    IF v.t = "str" THEN v.s # <<>>
    ELSE IF v.t = "num" THEN NumParts(v.s).mant # 0
    ELSE IF v.t = "obj" THEN DOMAIN v.fields # {}
    ELSE FALSE

\* the attributes write_to_dynamodb puts in the item for a visit record
SingleItemFields(visit_record) ==
    {"batch_id", "ai_classification"}
    \cup (IF IsObject(visit_record)
          THEN ({"client", "carer", "note", "classification"}
                    \cap DOMAIN visit_record.fields)
               \cup (IF Has(visit_record, "date") THEN {"visit_date"} ELSE {})
          ELSE {})

SingleItem(bid, visit_record, classification) ==
    [f \in SingleItemFields(visit_record) |->
        IF f = "batch_id" THEN bid
        ELSE IF f = "ai_classification" THEN classification
        ELSE IF f = "visit_date" THEN PyStr(visit_record.fields.date)
        ELSE PyStr(visit_record.fields[f])]

\* the field names write_to_dynamodb looks for with "in"
SingleFieldNames ==
    { <<"c", "l", "i", "e", "n", "t">>,
      <<"c", "a", "r", "e", "r">>,
      <<"d", "a", "t", "e">>,
      <<"n", "o", "t", "e">>,
      <<"c", "l", "a", "s", "s", "i", "f", "i", "c", "a", "t", "i", "o", "n">> }

\* building the item raises: "in" on a number or None is a TypeError; on a
\* text, "in" is the substring test and visit_record['client'] of a text
\* that holds a field name is a TypeError
ItemRaises(visit_record) ==
    IF IsObject(visit_record) THEN FALSE
    ELSE IF visit_record.t = "str"
    THEN \E name \in SingleFieldNames : Contains(visit_record.s, name)
    ELSE TRUE

\* write_to_dynamodb(batch_id, visit_record, classification), with what the
\* table did with the one put_item as a parameter: the boolean returned, the
\* number of put_item calls, the item sent and whether the table took it
write_to_dynamodb(bid, visit_record, classification, so) ==
    IF bid = <<>> \/ ItemRaises(visit_record)
    THEN [returned |-> FALSE, calls |-> 0, item |-> <<>>, written |-> FALSE]
    ELSE [returned |-> ~so.error,
          calls |-> 1,
          item |-> <<SingleItem(bid, visit_record, classification)>>,
          written |-> so.accepted = 1]

\* the exceptions that leave lambda_handler, by where they are raised:
\* get_object, json.loads, len() of a JSON number, boolean or null, the
\* first record that is no object, the slice of a note that is no text
SingleFailures == {"fetch_error", "bad_json", "scalar", "bad_record", "bad_note"}

InitSingle ==
    /\ handler = "single"
    /\ event \in SingleEvents
    /\ HandlerIdle
    /\ cv = NoCall

\* the for loop takes the next S3 record: bucket, key and the batch id
SingleBegin ==
    /\ handler = "single"
    /\ pc = "loop"
    /\ top < Len(EventRecords(event))
    /\ top' = top + 1
    /\ pc' = "fetch"
    /\ batch_id' = BatchIdOf(EventRecords(event)[top + 1].s3[1])
    /\ records' = <<>>
    /\ results' = <<>>
    /\ items' = <<>>
    /\ success_count' = 0
    /\ wr' = NoWrite
    /\ UNCHANGED <<handler, event, sub, tasks, counts, summary_log, store, outcomes,
                   ack, cv>>

SingleFetch_Continue ==
    /\ handler = "single"
    /\ pc = "fetch"
    /\ \E fo \in SingleOutcomes :
        IF ~Sized(fo)
        THEN /\ pc' = "loop"
             /\ outcomes' = Append(outcomes, fo.kind)
             /\ UNCHANGED records
        ELSE IF Elements(fo) # <<>> /\ ~IsObject(Elements(fo)[1])
        THEN /\ pc' = "loop"
             /\ outcomes' = Append(outcomes, "bad_record")
             /\ UNCHANGED records
        ELSE /\ pc' = "classify"
             /\ records' = Elements(fo)
             /\ UNCHANGED outcomes
    /\ UNCHANGED <<handler, event, top, sub, batch_id, tasks, results, items, counts,
                   success_count, summary_log, store, wr, ack, cv>>

\* get_object, json.loads, len(records) and the logging of the record
\* structure: any exception is logged and raised again, by the inner except
\* branch and then by the outer one.  records[0] of a non-empty text is a
\* character, which has no keys(); records[0] of a non-empty object raises
\* KeyError: both count as "bad_record"
SingleFetch ==
    /\ handler = "single"
    /\ pc = "fetch"
    /\ \E fo \in SingleOutcomes :
        IF ~Sized(fo)
        THEN /\ pc' = "raised"
             /\ outcomes' = Append(outcomes, fo.kind)
             /\ UNCHANGED records
        ELSE IF Elements(fo) # <<>> /\ ~IsObject(Elements(fo)[1])
        THEN /\ pc' = "raised"
             /\ outcomes' = Append(outcomes, "bad_record")
             /\ UNCHANGED records
        ELSE /\ pc' = "classify"
             /\ records' = Elements(fo)
             /\ UNCHANGED outcomes
    /\ UNCHANGED <<handler, event, top, sub, batch_id, tasks, results, items, counts,
                   success_count, summary_log, store, wr, ack, cv>>

\* the classification of the first record: nothing to classify, a note that
\* cannot be sliced, or one call of classify_visit_note; then the test of the
\* batch id
SingleClassify ==
    /\ handler = "single"
    /\ pc = "classify"
    /\ IF records = <<>> \/ ~Truthy(Get(records[1], "note", JStr(<<>>)))
       THEN /\ pc' = "loop"
            /\ outcomes' = Append(outcomes, "nothing")
            /\ UNCHANGED results
       ELSE IF Get(records[1], "note", JStr(<<>>)).t # "str"
       THEN /\ pc' = "raised"
            /\ outcomes' = Append(outcomes, "bad_note")
            /\ UNCHANGED results
       ELSE \E outcome \in ClassifyOutcomes :
            /\ results' = <<classify_visit_note(NoteText(records[1]), outcome)>>
            /\ IF batch_id # <<>>
               THEN /\ pc' = "write"
                    /\ UNCHANGED outcomes
               ELSE /\ pc' = "loop"
                    /\ outcomes' = Append(outcomes, "no_batch_id")
    /\ UNCHANGED <<handler, event, top, sub, batch_id, records, tasks, items, counts,
                   success_count, summary_log, store, wr, ack, cv>>

\* write_to_dynamodb for the first record; its result is only logged
SingleWrite ==
    /\ handler = "single"
    /\ pc = "write"
    /\ \E so \in StoreOutcomes(1) :
        LET w == write_to_dynamodb(batch_id, records[1], results[1].category, so)
        IN  /\ items' = w.item
            /\ wr' = [calls |-> wr.calls + w.calls, error |-> so.error,
                      accepted |-> so.accepted]
            /\ store' = IF w.written THEN store \cup { <<batch_id>> } ELSE store
            /\ success_count' = IF w.returned THEN 1 ELSE 0
            /\ outcomes' = Append(outcomes, IF w.returned THEN "written"
                                            ELSE "write_failed")
    /\ pc' = "loop"
    /\ UNCHANGED <<handler, event, top, sub, batch_id, records, tasks, results,
                   counts, summary_log, ack, cv>>

\* the loop is over: the acknowledgment is returned
SingleReturn ==
    /\ handler = "single"
    /\ pc = "loop"
    /\ top = Len(EventRecords(event))
    /\ pc' = "done"
    /\ ack' = [statusCode |-> 200,
               message |-> "Successfully processed S3 trigger",
               processed_objects |-> Len(EventRecords(event))]
    /\ UNCHANGED <<handler, event, top, sub, batch_id, records, tasks, results,
                   items, counts, success_count, summary_log, store, wr, outcomes,
                   cv>>

NextSingle ==
    \/ SingleBegin
    \/ SingleFetch
    \/ SingleClassify
    \/ SingleWrite
    \/ SingleReturn

SpecSingle == InitSingle /\ [][NextSingle]_vars

-----------------------------------------------------------------------------
(* Vocabulary of the properties *)

\* the record's note is text made of whitespace only (or is absent, which
\* .get('note', '') reads as the empty text)
BlankNote(r) ==
    /\ HasTextNote(r)
    /\ \A k \in 1..Len(NoteText(r)) : IsSpace(NoteText(r)[k])

\* the record's note is text with at least one character that is no whitespace
UsableNote(r) ==
    /\ HasTextNote(r)
    /\ \E k \in 1..Len(NoteText(r)) : ~IsSpace(NoteText(r)[k])

\* the distinct clients of a batch of objects: the client of each record
\* that no earlier record's client equals
ClientSet(recs) ==
    { ClientOf(recs[i]) :
        i \in { i \in 1..Len(recs) :
                  \A j \in 1..(i - 1) : ~ValueEq(ClientOf(recs[j]), ClientOf(recs[i])) } }

\* the indices of client c's records
RecordsOfClient(recs, c) == { i \in 1..Len(recs) : ValueEq(ClientOf(recs[i]), c) }

\* what str(record.get(field, '')) is
FieldText(r, f) == IF Has(r, f) THEN PyStr(r.fields[f]) ELSE <<>>

\* lambda_handler has ended, by returning or by raising
Ended == pc \in {"done", "raised"}

\* the number of notifications the loops have taken so far
RECURSIVE CountS3(_)
CountS3(rs) == IF rs = <<>> THEN 0 ELSE Len(Head(rs).s3) + CountS3(Tail(rs))

Begun == IF top = 0 THEN 0 ELSE CountS3(SubSeq(EventRecords(event), 1, top - 1)) + sub

InNotification == pc \in {"fetch", "pool", "persist", "report", "failed"}

-----------------------------------------------------------------------------
(* C1 *)

\* C1 as stated: in the classify handler the number of items handed to the
\* bulk persister is at most len(B), and equals len(B) if and only if no
\* record of B has an empty or whitespace-only note.
C1_AsStated ==
    (handler = "classify" /\ pc = "persist") =>
        /\ Len(items) <= Len(records)
        /\ (Len(items) = Len(records)) <=>
               (\A i \in 1..Len(records) : ~BlankNote(records[i]))

\* C1, amended: in the classify handler the number of items handed to the
\* bulk persister is at most len(B), and equals len(B) if and only if every
\* record of B is an object whose note is text with a non-whitespace
\* character (no empty or whitespace-only note, and no record whose work
\* item ends in its except branch).
C1_ItemCount ==
    (handler = "classify" /\ pc = "persist") =>
        /\ Len(items) <= Len(records)
        /\ (Len(items) = Len(records)) <=>
               (\A i \in 1..Len(records) : UsableNote(records[i]))

C1_Witness ==
    /\ handler = "classify"
    /\ pc = "persist"
    /\ Len(records) = 2
    /\ Len(items) = 1
    /\ \E i \in 1..2 : BlankNote(records[i])
    /\ \E i \in 1..2 : UsableNote(records[i])

-----------------------------------------------------------------------------
(* C2 *)

\* C2 as stated: in the summarise handler the number of items handed to the
\* bulk persister is at most len(B), and equals len(B) if and only if every
\* client appearing in B has at least one non-empty note.
C2_AsStated ==
    (handler = "summarise" /\ pc = "persist") =>
        /\ Len(items) <= Len(records)
        /\ (Len(items) = Len(records)) <=>
               (\A c \in ClientSet(records) :
                    \E i \in RecordsOfClient(records, c) : UsableNote(records[i]))

\* C2, amended: in the summarise handler a batch B reaches the bulk persister
\* only when its grouping succeeds (every record is an object whose client
\* can be a dict key); when the grouping raises, the notification fails with
\* no work unit and no item.  For a batch that reaches the persister the
\* number of items handed over is at most the number of distinct clients of
\* B, which is at most len(B); it equals the number of distinct clients if
\* and only if every client has at least one non-empty note and no work unit
\* ends in its except branch (no client has a record whose note is not text).
C2_ItemCount ==
    /\ (handler = "summarise" /\ pc = "persist") =>
        /\ \A i \in 1..Len(records) : ~Ungroupable(records[i])
        /\ Len(items) <= Cardinality(ClientSet(records))
        /\ Cardinality(ClientSet(records)) <= Len(records)
        /\ (Len(items) = Cardinality(ClientSet(records))) <=>
               (\A c \in ClientSet(records) :
                    /\ \E i \in RecordsOfClient(records, c) : UsableNote(records[i])
                    /\ \A i \in RecordsOfClient(records, c) : HasTextNote(records[i]))
    /\ (handler = "summarise" /\ pc = "failed" /\ records # <<>>) =>
        /\ \E i \in 1..Len(records) : Ungroupable(records[i])
        /\ tasks = <<>>
        /\ items = <<>>

C2_Witness ==
    /\ handler = "summarise"
    /\ pc = "persist"
    /\ Len(records) = 2
    /\ Cardinality(ClientSet(records)) = 1
    /\ Len(items) = 1
    /\ \A i \in 1..2 : UsableNote(records[i])

-----------------------------------------------------------------------------
(* C3 *)

\* the item that worker i returned describes record i of the batch
DescribesRecord(item, i) ==
    /\ item.id = StrNat(i - 1)
    /\ item.batch_id = batch_id
    /\ HasTextNote(records[i])
    /\ item.note = NoteText(records[i])
    /\ item.client = FieldText(records[i], "client")
    /\ item.care_pro = FieldText(records[i], "care_pro")
    /\ item.visit_date = FieldText(records[i], "visit_date")

\* the 1-based position in the batch of the record an item names by its id
RecordOf(item) == CHOOSE i \in 1..Len(records) : StrNat(i - 1) = item.id

\* C3: whatever the order in which the workers of the classify handler
\* complete, the item with id i carries the note, client, care_pro and
\* visit_date of record i and the category that the classifier call of worker
\* i returned; this holds of every result as soon as its worker has returned
\* and of every item collected for the bulk write, and the collected items
\* follow the order of the batch.
C3_Correlation ==
    (handler = "classify" /\ pc \in {"pool", "persist", "report"}) =>
        /\ \A i \in 1..Len(results) :
               (results[i].status = "done" /\ results[i].ret.value # None) =>
                   /\ DescribesRecord(results[i].ret.value[1].item, i)
                   /\ results[i].ret.value[1].item.ai_classification =
                          results[i].ret.value[1].classification
        /\ \A k \in 1..Len(items) :
               /\ \E i \in 1..Len(records) : items[k].id = StrNat(i - 1)
               /\ DescribesRecord(items[k], RecordOf(items[k]))
               /\ results[RecordOf(items[k])].ret.value # None
               /\ items[k].ai_classification =
                      results[RecordOf(items[k])].ret.value[1].classification
        /\ \A k, l \in 1..Len(items) :
               k < l => RecordOf(items[k]) < RecordOf(items[l])
        /\ (pc # "pool") =>
               \A i \in 1..Len(results) :
                   results[i].ret.value # None =>
                       \E k \in 1..Len(items) : items[k] = results[i].ret.value[1].item

\* the second work item has returned its item while the first is still running
C3_Witness ==
    /\ handler = "classify"
    /\ pc = "pool"
    /\ Len(results) = 2
    /\ records[1] # records[2]
    /\ results[1].status = "running"
    /\ UsableNote(records[1])
    /\ results[2].status = "done"
    /\ results[2].ret.value # None

-----------------------------------------------------------------------------
(* C4 *)

\* C4: in the classify and summarise handlers a notification that fails
\* (fetch failure, unparseable content, unexpected error) does not stop the
\* loop: every notification begun before the current one has reached its end
\* (failed, empty or reported), and when the handler has ended every
\* notification of the event has.
C4_SiblingsProcessed ==
    (handler \in {"classify", "summarise"}) =>
        /\ Len(outcomes) = Begun - (IF InNotification THEN 1 ELSE 0)
        /\ Ended => Len(outcomes) = Len(Notifications(EventRecords(event)))

\* the first notification failed, the second was persisted and reported
C4_Witness ==
    /\ handler \in {"classify", "summarise"}
    /\ pc = "done"
    /\ Len(outcomes) = 2
    /\ outcomes[1] = "failed"
    /\ outcomes[2] = "reported"
    /\ store # {}

-----------------------------------------------------------------------------
(* C5 *)

\* C5: the classify and summarise handlers never raise, and whenever they
\* return, it is the fixed-shape acknowledgment with statusCode 200,
\* whatever the notifications' outcomes and the store writes were.
C5_AlwaysAcknowledges ==
    (handler \in {"classify", "summarise"}) =>
        /\ pc # "raised"
        /\ (pc = "done") =>
               /\ DOMAIN ack = {"statusCode", "message", "processed_objects"}
               /\ ack.statusCode = 200
               /\ ack.message = (IF handler = "classify" THEN "Processing complete."
                                 ELSE "Summarisation complete.")

\* an acknowledgment with status 200 after a failed notification and a
\* reported one that left nothing in the store
C5_Witness ==
    /\ handler \in {"classify", "summarise"}
    /\ pc = "done"
    /\ ack.statusCode = 200
    /\ \E i \in 1..Len(outcomes) : outcomes[i] = "failed"
    /\ \E i \in 1..Len(outcomes) : outcomes[i] = "reported"
    /\ store = {}

-----------------------------------------------------------------------------
(* C6 *)

\* word w occurs in text when letter case is ignored
HasWord(text, w) ==
    \E i \in 1..Len(text) :
        /\ i + Len(w) - 1 <= Len(text)
        /\ \A j \in 1..Len(w) : lowerChar(text[i + j - 1]) = w[j]

\* the category the reply stands for: the first of red, amber, green that
\* occurs in it, amber when none does or when there is no reply text
CategoryOfReply(outcome) ==
    IF outcome.kind # "ok" THEN "amber"
    ELSE IF HasWord(outcome.text, KwRed) THEN "red"
    ELSE IF HasWord(outcome.text, KwAmber) THEN "amber"
    ELSE IF HasWord(outcome.text, KwGreen) THEN "green"
    ELSE "amber"

\* the note has a character that is no whitespace
NonBlankText(note) == \E k \in 1..Len(note) : ~IsSpace(note[k])

\* C6: on a non-empty note classify_visit_note returns the first of red,
\* amber, green that occurs in the model's reply as a substring, letter case
\* ignored, and amber when none occurs, when the response is malformed or when
\* the model call raises.
C6_ReplyMapping ==
    (cv.state = "returned" /\ NonBlankText(cv.note)) =>
        cv.ret.category = CategoryOfReply(cv.outcome)

\* a reply naming amber before red is classified red
C6_Witness ==
    /\ cv.state = "returned"
    /\ NonBlankText(cv.note)
    /\ cv.outcome = Reply(<<"A", "M", "B", "E", "R", "/", "R", "E", "D">>)
    /\ cv.ret.category = "red"

-----------------------------------------------------------------------------
(* C7 *)

\* C7: on an empty or whitespace-only note classify_visit_note returns green
\* and makes no call of the text-generation model.
C7_BlankIsGreen ==
    (cv.state = "returned" /\ ~NonBlankText(cv.note)) =>
        /\ cv.ret.category = "green"
        /\ cv.ret.invocations = 0

\* a whitespace-only note, with a model that would have answered red
C7_Witness ==
    /\ cv.state = "returned"
    /\ cv.note = <<"\t", "\n">>
    /\ cv.outcome = Reply(<<"R", "E", "D">>)
    /\ cv.ret.category = "green"
    /\ cv.ret.invocations = 0

-----------------------------------------------------------------------------
(* C8 *)

\* the work items of the current batch whose single model call failed
FailedCalls == { i \in 1..Len(results) : results[i].ret.failed }

\* C8: in the classify pipeline the model is invoked exactly once for each
\* record with a non-empty note and never for a record with an empty note
\* (nor for a malformed one); a record whose call failed still yields an item
\* of category amber that is counted in the amber tally, and its notification
\* goes on to the bulk write.
C8_SingleCallFallback ==
    (handler = "classify" /\ pc \in {"persist", "report"}) =>
        /\ \A i \in 1..Len(records) :
               /\ UsableNote(records[i]) => results[i].ret.invocations = 1
               /\ ~UsableNote(records[i]) => results[i].ret.invocations = 0
        /\ \A i \in FailedCalls :
               /\ results[i].ret.invocations = 1
               /\ \E k \in 1..Len(items) :
                      /\ items[k].id = StrNat(i - 1)
                      /\ items[k].ai_classification = "amber"
        /\ counts["amber"] >= Cardinality(FailedCalls)
        /\ counts["amber"] =
               Cardinality({ k \in 1..Len(items) : items[k].ai_classification = "amber" })

\* a batch whose only classified record had a failing model call, reported
C8_Witness ==
    /\ handler = "classify"
    /\ pc = "report"
    /\ Len(records) = 2
    /\ Cardinality(FailedCalls) = 1
    /\ \E i \in 1..2 : BlankNote(records[i])
    /\ Len(items) = 1
    /\ items[1].ai_classification = "amber"
    /\ counts = [red |-> 0, amber |-> 1, green |-> 0]

-----------------------------------------------------------------------------
(* C9 *)

\* C9: on a non-empty list batch_write_to_dynamodb returns 0 or len(items)
\* and nothing between: 0 whenever the table raised, also after it had taken
\* some of the items, and len(items) only when the batch write ended without
\* an error.
C9_AllOrNothing ==
    (pc = "report" /\ items # <<>>) =>
        /\ success_count \in {0, Len(items)}
        /\ wr.calls = 1
        /\ wr.error => success_count = 0
        /\ ~wr.error => (success_count = Len(items) /\ wr.accepted = Len(items))

\* two items, the table raised after taking the first, 0 is returned
C9_Witness ==
    /\ pc = "report"
    /\ Len(items) = 2
    /\ wr.error
    /\ wr.accepted = 1
    /\ Cardinality(store) = 1
    /\ success_count = 0

-----------------------------------------------------------------------------
(* C10 *)

\* C10: called with an empty list, batch_write_to_dynamodb returns 0, opens
\* no batch writer and leaves the table as it was.
C10_EmptyWriteIsNoOp ==
    [][ (pc = "persist" /\ items = <<>>) =>
            /\ success_count' = 0
            /\ wr'.calls = 0
            /\ wr'.accepted = 0
            /\ store' = store ]_vars

\* the bulk persister has returned from a call with no items, for a batch
\* that had records
C10_Witness ==
    /\ pc = "report"
    /\ records # <<>>
    /\ items = <<>>
    /\ success_count = 0
    /\ wr.calls = 0

-----------------------------------------------------------------------------
(* C11 *)

\* the text without its leading and trailing whitespace characters
Trimmed(text) ==
    IF \A k \in 1..Len(text) : IsSpace(text[k]) THEN <<>>
    ELSE LET a == CHOOSE i \in 1..Len(text) :
                      ~IsSpace(text[i]) /\ \A j \in 1..(i - 1) : IsSpace(text[j])
             b == CHOOSE i \in 1..Len(text) :
                      ~IsSpace(text[i]) /\ \A j \in (i + 1)..Len(text) : IsSpace(text[j])
         IN  SubSeq(text, a, b)

\* C11: summarise_notes always returns: "No summary available." for an empty
\* list of notes, without a model call; "Summary unavailable due to an error."
\* when the one model call raised or its response was malformed; otherwise the
\* model's reply without its leading and trailing whitespace.
C11_SummariserSentinels ==
    (handler = "unit_summarise" /\ cv.state = "returned") =>
        /\ (cv.notes = <<>>) =>
               /\ cv.ret.summary = NoSummary
               /\ cv.ret.invocations = 0
        /\ (cv.notes # <<>> /\ cv.outcome.kind # "ok") =>
               /\ cv.ret.summary = SummaryUnavailable
               /\ cv.ret.invocations = 1
        /\ (cv.notes # <<>> /\ cv.outcome.kind = "ok") =>
               /\ cv.ret.summary = Trimmed(cv.outcome.text)
               /\ cv.ret.invocations = 1

\* two notes, and a reply wrapped in whitespace that comes back trimmed
C11_Witness ==
    /\ handler = "unit_summarise"
    /\ cv.state = "returned"
    /\ Len(cv.notes) = 2
    /\ cv.outcome = Reply(<<"\f", "a", " ", "b", "\t">>)
    /\ cv.ret.summary = <<"a", " ", "b">>

-----------------------------------------------------------------------------
(* C12 *)

\* the items collected for the bulk write that carry category c
ItemsOfCategory(c) == { k \in 1..Len(items) : items[k].ai_classification = c }

\* C12: in the classify handler, once the results of a batch are aggregated,
\* red + amber + green equals the number of items, each counter equals the
\* number of items carrying that ai_classification, and the records that were
\* skipped (empty note) or whose work item ended in its except branch are in
\* no counter: the counters sum to the number of records with a usable note.
C12_TallyMatchesItems ==
    (handler = "classify" /\ pc \in {"persist", "report"}) =>
        /\ counts["red"] + counts["amber"] + counts["green"] = Len(items)
        /\ \A c \in {"red", "amber", "green"} :
               counts[c] = Cardinality(ItemsOfCategory(c))
        /\ counts["red"] + counts["amber"] + counts["green"] =
               Cardinality({ i \in 1..Len(records) : UsableNote(records[i]) })
        /\ \A i \in 1..Len(records) :
               ~UsableNote(records[i]) => results[i].ret.value = None

\* a red item next to a record whose work item ended in its except branch
C12_Witness ==
    /\ handler = "classify"
    /\ pc = "persist"
    /\ Len(records) = 2
    /\ \E i \in 1..2 : results[i].ret.why = "error"
    /\ counts = [red |-> 1, amber |-> 0, green |-> 0]
    /\ Len(items) = 1

-----------------------------------------------------------------------------
(* C13 *)

\* every worker of the current notification's pool has returned
AllWorkersReturned == \A i \in 1..Len(results) : results[i].status = "done"

\* the orchestrating thread fills the tally or the item list, or the table
\* is written, in this step of a notification
AggregatesOrWrites ==
    /\ pc \in {"pool", "persist"}
    /\ \/ counts' # counts
       \/ items' # items
       \/ store' # store
       \/ wr' # wr
       \/ pc' \in {"persist", "report"}

\* C13: in both handlers every step that fills the tally or the item list or
\* writes to the table is taken when all workers of the notification's pool
\* have returned; while the orchestrator is in the persist or report phase no
\* worker is queued or running; and a notification makes at most one
\* bulk-write call.
C13_NoOverlap ==
    /\ [](pc \in {"persist", "report"} => AllWorkersReturned)
    /\ [](wr.calls <= 1)
    /\ [][AggregatesOrWrites => AllWorkersReturned]_vars

\* the summaries of two clients were written by the one bulk write of the
\* notification, after both workers had returned
C13_Witness ==
    /\ handler = "summarise"
    /\ pc = "report"
    /\ Len(results) = 2
    /\ AllWorkersReturned
    /\ wr.calls = 1
    /\ Cardinality(store) = 2

-----------------------------------------------------------------------------
(* C14 *)

\* C14 as stated: the acknowledgment's processed_objects equals the number of
\* bucket/key notifications of the triggering event, however each of them
\* ended, in the summarise handler and in the classify handler, whose
\* notifications are nested inside the top-level records.
C14_CountsNotifications ==
    (handler \in {"classify", "summarise"} /\ pc = "done") =>
        ack.processed_objects = Len(Notifications(EventRecords(event)))

-----------------------------------------------------------------------------
(* C15 *)

\* a record whose work item ends in the except branch: it is no object, or
\* its note is not text
MalformedRecord(r) == ~HasTextNote(r)

\* the batch without its malformed records
WithoutMalformed(recs) == SelectSeq(recs, LAMBDA r : ~MalformedRecord(r))

\* the clients of a batch that have a record with a usable note
ClientsWithNotes(recs) ==
    { c \in ClientSet(recs) : \E i \in RecordsOfClient(recs, c) : UsableNote(recs[i]) }

\* the number of items a batch without malformed records yields
ItemsExpected(recs) ==
    IF handler = "classify"
    THEN Cardinality({ i \in 1..Len(recs) : UsableNote(recs[i]) })
    ELSE Cardinality(ClientsWithNotes(recs))

\* C15 as stated: a malformed record yields no item and no tally increment,
\* and the other records of its batch reach the bulk write as if the malformed
\* record were absent: the items (and, in the classify handler, the tally)
\* are as many as the batch without its malformed records yields.
C15_AsStated ==
    (handler \in {"classify", "summarise"} /\ pc \in {"persist", "report"}) =>
        /\ Len(items) = ItemsExpected(WithoutMalformed(records))
        /\ (handler = "classify") =>
               counts["red"] + counts["amber"] + counts["green"] =
                   ItemsExpected(WithoutMalformed(records))

\* the work items whose records are all well formed and hold a usable note
GoodTasks ==
    { i \in 1..Len(tasks) :
        IF handler = "classify" THEN UsableNote(tasks[i].visit_record)
        ELSE /\ \A k \in 1..Len(tasks[i].client_records) :
                    ~MalformedRecord(tasks[i].client_records[k])
             /\ \E k \in 1..Len(tasks[i].client_records) :
                    UsableNote(tasks[i].client_records[k]) }

\* the work items that hold a malformed record
BadTasks ==
    { i \in 1..Len(tasks) :
        IF handler = "classify" THEN MalformedRecord(tasks[i].visit_record)
        ELSE \E k \in 1..Len(tasks[i].client_records) :
                 MalformedRecord(tasks[i].client_records[k]) }

\* C15, amended: an exception inside one work item is absorbed by that work
\* item alone.  The work item yields no item and no tally increment; every
\* other work item of the batch (every other record in the classify handler,
\* every other client in the summarise handler) whose records hold a usable
\* note still yields its item, built from its own records only, which is
\* tallied and handed to the bulk write; a classify item keeps the id of its
\* record's position in the whole batch.  In the summarise handler the work
\* item is the client, so the other records of the malformed record's client
\* are dropped with it.
C15_AbsorbedByWorkItem ==
    (handler \in {"classify", "summarise"} /\ pc \in {"persist", "report"}) =>
        /\ \A i \in BadTasks :
               /\ results[i].ret.value = None
               /\ results[i].ret.why = "error"
               /\ results[i].ret.invocations = 0
        /\ \A i \in GoodTasks :
               /\ results[i].ret.value # None
               /\ IF handler = "classify"
                  THEN /\ DescribesRecord(results[i].ret.value[1].item, i)
                       /\ \E k \in 1..Len(items) : items[k] = results[i].ret.value[1].item
                  ELSE /\ results[i].ret.value[1].client = tasks[i].client_name
                       /\ tasks[i].client_records =
                              ClientRecords(records, tasks[i].client_name)
                       /\ results[i].ret.value[1].visit_count =
                              Len(tasks[i].client_records)
                       /\ results[i].ret.notes =
                              StrippedNotes(SortedByDate(tasks[i].client_records).value)
                       /\ \E k \in 1..Len(items) : items[k] = results[i].ret.value[1]
        /\ Len(items) = Cardinality(GoodTasks)
        /\ (handler = "classify") =>
               counts["red"] + counts["amber"] + counts["green"] = Cardinality(GoodTasks)

\* the work item of one client ended in its except branch and the summary of
\* the other client was written
C15_Witness ==
    /\ handler = "summarise"
    /\ pc = "report"
    /\ Len(results) = 2
    /\ Cardinality(BadTasks) = 1
    /\ Cardinality(GoodTasks) = 1
    /\ Len(items) = 1
    /\ success_count = 1

-----------------------------------------------------------------------------
(* C16 *)

\* the work items of the current batch that ended in the except branch
ErroredItems == { i \in 1..Len(results) : results[i].ret.why = "error" }

\* the work items of the current batch that were skipped for an empty note
SkippedItems == { i \in 1..Len(results) : results[i].ret.why = "skipped" }

\* C16 as stated: in the classify handler the number logged as "failed
\* during classification step" counts failed records only; a record that was
\* skipped for an empty or whitespace-only note is never part of it.
C16_FailedExcludesSkipped ==
    (handler = "classify" /\ summary_log.logged) =>
        summary_log.failed_classification = Cardinality(ErroredItems)

-----------------------------------------------------------------------------
(* C17 *)

\* the phases a notification may enter next from each phase: parse ("fetch"),
\* aggregate ("pool"), persist, report, or failed
PhaseSuccessors ==
    [ loop    |-> {"fetch", "done"},
      fetch   |-> {"failed", "pool", "loop"},
      pool    |-> {"persist"},
      persist |-> {"report"},
      report  |-> {"loop"},
      failed  |-> {"loop"},
      done    |-> {} ]

\* C17: in both handlers a notification whose fetch or parse fails enters the
\* failed state with no worker started, no model call made and no bulk write
\* attempted, and leaves it for the next notification without touching the
\* table; the phases of a notification follow one another in the order
\* parse, aggregate, persist, report: workers run in the aggregate phase
\* only, the table is written in the step from persist to report only, and
\* the summary is logged in the step that leaves report only.
C17_PhaseOrder ==
    /\ [](pc = "failed" =>
             /\ results = <<>>
             /\ items = <<>>
             /\ wr.calls = 0
             /\ ~summary_log.logged)
    /\ [](pc \in {"fetch", "pool", "persist"} => (wr.calls = 0 /\ ~summary_log.logged))
    /\ [](pc = "report" => ~summary_log.logged)
    /\ [][ /\ pc' # pc => pc' \in PhaseSuccessors[pc]
           /\ (store' # store \/ wr'.calls > wr.calls) => (pc = "persist" /\ pc' = "report")
           /\ (summary_log'.logged /\ ~summary_log.logged) => (pc = "report" /\ pc' = "loop")
           /\ (results' # results /\ results' # <<>>) => pc \in {"fetch", "pool"}
           /\ (pc = "failed") => (store' = store /\ wr' = wr /\ results' = results) ]_vars

\* the second notification of an event has failed at its fetch or parse,
\* after the first one was written and reported
C17_Witness ==
    /\ handler \in {"classify", "summarise"}
    /\ pc = "failed"
    /\ outcomes = <<"reported">>
    /\ store # {}
    /\ results = <<>>
    /\ wr.calls = 0

-----------------------------------------------------------------------------
(* C18 *)

\* the client group "Unknown"
UnknownClient == JStr(<<"U", "n", "k", "n", "o", "w", "n">>)

\* the client a record names, Unknown when it names none
NamedClient(r) == IF Has(r, "client") THEN r.fields.client ELSE UnknownClient

\* the number of records in the groups of the work units ts
RECURSIVE GroupSizes(_)
GroupSizes(ts) ==
    IF ts = <<>> THEN 0 ELSE Len(Head(ts).client_records) + GroupSizes(Tail(ts))

\* how often record r occurs in the sequence s
Occurrences(s, r) == Cardinality({ k \in 1..Len(s) : s[k] = r })

\* the batch of the current notification was parsed and the grouping loop
\* has run, whether it ended or raised
Grouped ==
    /\ handler = "summarise"
    /\ \/ pc \in {"pool", "persist", "report"}
       \/ pc = "failed" /\ records # <<>>

\* C18 as stated: for every batch of objects the summarise handler has
\* parsed, every record belongs to exactly one client group and the group
\* sizes sum to the number of records.
C18_AsStated ==
    (Grouped /\ \A i \in 1..Len(records) : IsObject(records[i])) =>
        /\ \A i \in 1..Len(records) :
               Cardinality({ j \in 1..Len(tasks) :
                               Occurrences(tasks[j].client_records, records[i]) > 0 }) = 1
        /\ GroupSizes(tasks) = Len(records)

\* C18, amended: in the summarise handler the client groups partition every
\* batch whose records are all objects with a client that can be a dict key
\* (a text, a number, null or no client field).  Every record lies in the
\* group of the client it names, or of "Unknown" when it has no client
\* field, and in no other group; there is exactly one work unit per distinct
\* client; the group sizes (the visit counts) sum to the number of records;
\* and at most one item is produced per client.  For any other batch the
\* grouping raises: no group, no work unit and no item exists.
C18_GroupsPartition ==
    /\ (Grouped /\ pc = "failed") =>
        /\ \E i \in 1..Len(records) : Ungroupable(records[i])
        /\ tasks = <<>>
        /\ items = <<>>
    /\ (Grouped /\ pc # "failed") =>
        /\ \A i \in 1..Len(records) : ~Ungroupable(records[i])
        /\ \A j, l \in 1..Len(tasks) :
               j # l => ~ValueEq(tasks[j].client_name, tasks[l].client_name)
        /\ \A j \in 1..Len(tasks) :
               /\ tasks[j].client_records # <<>>
               /\ \A k \in 1..Len(tasks[j].client_records) :
                      ValueEq(NamedClient(tasks[j].client_records[k]),
                              tasks[j].client_name)
        /\ \A i \in 1..Len(records) :
               \E j \in 1..Len(tasks) :
                   /\ ValueEq(tasks[j].client_name, NamedClient(records[i]))
                   /\ Occurrences(tasks[j].client_records, records[i]) =
                          Occurrences(records, records[i])
        /\ GroupSizes(tasks) = Len(records)
        /\ (pc # "pool") =>
               /\ Len(items) <= Len(tasks)
               /\ \A k, l \in 1..Len(items) : k # l => items[k].client # items[l].client
               /\ \A k \in 1..Len(items) :
                      \E j \in 1..Len(tasks) :
                          /\ tasks[j].client_name = items[k].client
                          /\ items[k].visit_count = Len(tasks[j].client_records)

\* a record without a client field and a record of client A: two groups, one
\* of them "Unknown", and one item for each
C18_Witness ==
    /\ handler = "summarise"
    /\ pc = "persist"
    /\ Len(records) = 2
    /\ \E i \in 1..2 : ~Has(records[i], "client")
    /\ Len(tasks) = 2
    /\ \E j \in 1..2 : tasks[j].client_name = UnknownClient
    /\ Len(items) = 2

-----------------------------------------------------------------------------
(* C19 *)

\* the work unit of the client that item names
TaskOfItem(item) == CHOOSE j \in 1..Len(tasks) : tasks[j].client_name = item.client

\* C19: in the summarise handler every item's visit_count is the number of
\* all records of its client in the batch, the records with an empty or
\* whitespace-only note included; it is at least the number of notes passed
\* to the summariser, which counts the records with a usable note only.
C19_VisitCountAllRecords ==
    (handler = "summarise" /\ pc \in {"persist", "report"}) =>
        \A k \in 1..Len(items) :
            /\ items[k].visit_count =
                   Cardinality({ i \in 1..Len(records) :
                                   ValueEq(NamedClient(records[i]), items[k].client) })
            /\ Len(results[TaskOfItem(items[k])].ret.notes) =
                   Cardinality({ i \in 1..Len(records) :
                                   /\ ValueEq(NamedClient(records[i]), items[k].client)
                                   /\ UsableNote(records[i]) })
            /\ items[k].visit_count >= Len(results[TaskOfItem(items[k])].ret.notes)

\* a client with two records of which one has an empty note: visit_count 2,
\* one note summarised
C19_Witness ==
    /\ handler = "summarise"
    /\ pc = "persist"
    /\ Len(items) = 1
    /\ items[1].visit_count = 2
    /\ Len(results[1].ret.notes) = 1
    /\ \E i \in 1..Len(records) : BlankNote(records[i])

-----------------------------------------------------------------------------
(* C20 *)

\* the records of the client that item names
RecordsOfItem(item) == tasks[TaskOfItem(item)].client_records

\* d is the greatest visit date among the records rs (code point order)
IsGreatestDate(d, rs) ==
    /\ \E i \in 1..Len(rs) : FieldText(rs[i], "visit_date") = d
    /\ \A i \in 1..Len(rs) : ~StrLess(d, FieldText(rs[i], "visit_date"))

\* the visit date of the last note sent to the summariser: the greatest
\* date among the records with a usable note
LastNoteDate(rs) ==
    CHOOSE d \in { FieldText(rs[i], "visit_date") : i \in 1..Len(rs) } :
        IsGreatestDate(d, SelectSeq(rs, UsableNote))

\* the text of the item's latest_visit_date
LatestText(item) == item.latest_visit_date.s

\* every record's visit date is a text (absent dates read as the empty text)
TextDates(rs) == \A i \in 1..Len(rs) : DateKey(rs[i]).t = "str"

\* item's latest_visit_date is the lexical maximum over all records of its
\* client, and the last note sent belongs to a record of date LastNoteDate
LatestIsMaximum(item) ==
    /\ IsGreatestDate(LatestText(item), RecordsOfItem(item))
    /\ \E i \in 1..Len(RecordsOfItem(item)) :
           /\ UsableNote(RecordsOfItem(item)[i])
           /\ FieldText(RecordsOfItem(item)[i], "visit_date") =
                  LastNoteDate(RecordsOfItem(item))
           /\ strip(NoteText(RecordsOfItem(item)[i])) =
                  results[TaskOfItem(item)].ret.notes[
                      Len(results[TaskOfItem(item)].ret.notes)]

\* C20 as stated: latest_visit_date is the lexical maximum of visit_date over
\* all records of the client, and it differs from the visit date of the last
\* note sent to the summariser exactly when a record holding the maximal date
\* has an empty note.
C20_AsStated ==
    (handler = "summarise" /\ pc \in {"persist", "report"}) =>
        \A k \in 1..Len(items) :
            /\ LatestIsMaximum(items[k])
            /\ (LatestText(items[k]) # LastNoteDate(RecordsOfItem(items[k]))) <=>
                   (\E i \in 1..Len(RecordsOfItem(items[k])) :
                        /\ FieldText(RecordsOfItem(items[k])[i], "visit_date") =
                               LatestText(items[k])
                        /\ BlankNote(RecordsOfItem(items[k])[i]))

\* C20, amended: for a client whose visit dates are all texts,
\* latest_visit_date is the lexical maximum of visit_date over all records
\* of the client, empty-note records included, and it differs from the visit
\* date of the last note sent to the summariser exactly when every record
\* holding the maximal date has an empty note.
C20_LatestOverAllRecords ==
    (handler = "summarise" /\ pc \in {"persist", "report"}) =>
        \A k \in 1..Len(items) :
          TextDates(RecordsOfItem(items[k])) =>
            /\ items[k].latest_visit_date.t = "str"
            /\ LatestIsMaximum(items[k])
            /\ (LatestText(items[k]) # LastNoteDate(RecordsOfItem(items[k]))) <=>
                   (\A i \in 1..Len(RecordsOfItem(items[k])) :
                        FieldText(RecordsOfItem(items[k])[i], "visit_date") =
                            LatestText(items[k])
                        => BlankNote(RecordsOfItem(items[k])[i]))

\* the record of the latest date has an empty note: latest_visit_date is
\* later than the date of the only note summarised
C20_Witness ==
    /\ handler = "summarise"
    /\ pc = "persist"
    /\ Len(items) = 1
    /\ items[1].latest_visit_date = JStr(<<"0", "3">>)
    /\ LastNoteDate(RecordsOfItem(items[1])) = <<"0", "2">>
    /\ Len(results[1].ret.notes) = 1

-----------------------------------------------------------------------------
(* C21 *)

\* the positions of the group's records that hold a usable note
UsableAt(rs) == { i \in 1..Len(rs) : UsableNote(rs[i]) }

\* ns are the trimmed notes of the group's usable records, each once, in
\* ascending order of visit date, records of equal date in group order
NotesInDateOrder(ns, rs) ==
    /\ Len(ns) = Cardinality(UsableAt(rs))
    /\ \E f \in [1..Len(ns) -> UsableAt(rs)] :
           /\ \A k, l \in 1..Len(ns) :
                  k < l =>
                     \/ StrLess(FieldText(rs[f[k]], "visit_date"),
                                FieldText(rs[f[l]], "visit_date"))
                     \/ /\ FieldText(rs[f[k]], "visit_date") =
                               FieldText(rs[f[l]], "visit_date")
                        /\ f[k] < f[l]
           /\ \A k \in 1..Len(ns) : ns[k] = Trimmed(NoteText(rs[f[k]]))

\* C21 as stated: for a client with at least one non-empty note the
\* summariser is invoked exactly once, with that client's non-empty notes,
\* trimmed, in ascending order of visit date and, for equal dates, in batch
\* order; a client with no non-empty note causes no call and no item.
C21_AsStated ==
    (handler = "unit_client" /\ cv.state = "returned") =>
        /\ (UsableAt(cv.args.client_records) # {}) =>
               /\ cv.ret.invocations = 1
               /\ NotesInDateOrder(cv.ret.notes, cv.args.client_records)
        /\ (UsableAt(cv.args.client_records) = {}) =>
               /\ cv.ret.invocations = 0
               /\ cv.ret.value = None

\* every visit date of the group is a text (or absent, which reads as the
\* empty text)

\* C21, amended: for a client with at least one non-empty note, whose
\* records all hold a text note and whose visit dates are all texts, the
\* summariser is invoked exactly once, with that client's non-empty notes,
\* trimmed, in ascending lexical order of visit date and, for equal dates,
\* in batch order, and one item is returned; a client with no non-empty
\* note, or with a record whose note is no text, causes no call and no item.
C21_OneCallOrderedNotes ==
    (handler = "unit_client" /\ cv.state = "returned") =>
        LET rs == cv.args.client_records
            textnotes == \A i \in 1..Len(rs) : HasTextNote(rs[i])
        IN  /\ (UsableAt(rs) # {} /\ textnotes /\ TextDates(rs)) =>
                   /\ cv.ret.invocations = 1
                   /\ NotesInDateOrder(cv.ret.notes, rs)
                   /\ cv.ret.value # None
            /\ (UsableAt(rs) = {} \/ ~textnotes) =>
                   /\ cv.ret.invocations = 0
                   /\ cv.ret.value = None

\* three notes given as (02 "ok", 02 "no", 01 " hi ") were summarised in one
\* call as hi, ok, no
C21_Witness ==
    /\ handler = "unit_client"
    /\ cv.state = "returned"
    /\ Len(cv.args.client_records) = 3
    /\ cv.ret.invocations = 1
    /\ cv.ret.notes = << <<"h", "i">>, <<"o", "k">>, <<"n", "o">> >>

-----------------------------------------------------------------------------
(* C23 *)

\* the items of the current bulk write whose key is in the table
ItemsInStore == { k \in 1..Len(items) : PrimaryKey(items[k]) \in store }

\* C23: after a call of batch_write_to_dynamodb the count it returned is at
\* most the number of items of that call that are in the table; the table
\* holds at least the items it accepted before raising, for which 0 is
\* returned.
C23_NeverOverReports ==
    (handler \in {"classify", "summarise"} /\ (pc = "report" \/ summary_log.logged)) =>
        /\ success_count <= Cardinality(ItemsInStore)
        /\ wr.accepted <= Cardinality(ItemsInStore)
        /\ (summary_log.logged /\ handler = "classify") =>
               summary_log.saved <= Cardinality(ItemsInStore)
        /\ (summary_log.logged /\ handler = "summarise") =>
               summary_log.written <= Cardinality(ItemsInStore)

\* the table raised after having taken both items of the call: 0 is
\* returned while two items are in the table
C23_Witness ==
    /\ handler \in {"classify", "summarise"}
    /\ pc = "report"
    /\ Len(items) = 2
    /\ wr.error
    /\ success_count = 0
    /\ Cardinality(ItemsInStore) = 2

-----------------------------------------------------------------------------
(* C24 *)

\* the primary keys of the items handed to the bulk write
KeysOfItems == { PrimaryKey(items[k]) : k \in 1..Len(items) }

\* the clients of the batch whose records all hold a text note and of which
\* one at least is usable
ClientsSummarised ==
    { c \in { NamedClient(records[i]) : i \in 1..Len(records) } :
        /\ \E i \in 1..Len(records) :
               NamedClient(records[i]) = c /\ UsableNote(records[i])
        /\ \A i \in 1..Len(records) :
               NamedClient(records[i]) = c => HasTextNote(records[i]) }

\* the keys that the batch content and the batch id determine
KeysOfBatch ==
    IF handler = "classify"
    THEN { <<StrNat(i - 1), batch_id>> : i \in { j \in 1..Len(records) : UsableNote(records[j]) } }
    ELSE { <<c, batch_id>> : c \in ClientsSummarised }

\* C24: the items of one bulk write have pairwise distinct primary keys,
\* (id, batch_id) with id the record's index in the classify handler and
\* (client, batch_id) in the summarise handler; and the set of keys is fixed
\* by the batch content and the batch id alone, whatever the model replied
\* and in whatever order the workers ran, so that processing the same content
\* again gives the same keys.
C24_DistinctStableKeys ==
    (handler \in {"classify", "summarise"} /\ pc \in {"persist", "report"}) =>
        /\ \A k, l \in 1..Len(items) :
               k # l => PrimaryKey(items[k]) # PrimaryKey(items[l])
        /\ Cardinality(KeysOfItems) = Len(items)
        /\ KeysOfItems = KeysOfBatch
        /\ (pc = "report" /\ ~wr.error) => KeysOfBatch \subseteq store

\* the same record twice in one batch: two items that differ in their id only
C24_Witness ==
    /\ handler = "classify"
    /\ pc = "report"
    /\ Len(records) = 2
    /\ records[1] = records[2]
    /\ Len(items) = 2
    /\ Cardinality(store) = 2

-----------------------------------------------------------------------------
(* C22 *)

\* a model call of the current notification never returns
Hung == \E i \in 1..Len(results) : results[i].status = "hung"

\* while a model call hangs, the handler stays in the pool of that
\* notification: no bulk write, no later notification, no acknowledgment
StalledByHang ==
    /\ [](Hung => (pc = "pool" /\ wr.calls = 0 /\ ack = NoAck))
    /\ [][Hung => (Hung' /\ pc' = "pool" /\ Begun' = Begun /\ store' = store
                     /\ outcomes' = outcomes)]_vars

\* the notification being processed stays the same from its fetch to its
\* report or failure
SameNotification ==
    [][ (pc \in {"fetch", "pool", "persist"}) => (Begun' = Begun) ]_vars

\* what became of each notification is recorded when it is left, and only
\* then: "reported" by the report, "failed" by the except branch, "empty"
\* when the classify handler leaves an empty list right after the parse
Recorded ==
    /\ [][(outcomes' # outcomes) =>
              /\ Len(outcomes') = Len(outcomes) + 1
              /\ SubSeq(outcomes', 1, Len(outcomes)) = outcomes
              /\ Len(outcomes') = Begun
              /\ \/ pc = "report" /\ outcomes'[Begun] = "reported"
                 \/ pc = "failed" /\ outcomes'[Begun] = "failed"
                 \/ pc = "fetch" /\ outcomes'[Begun] = "empty"]_vars
    /\ [][(pc \in {"report", "failed"} /\ pc' # pc) => outcomes' # outcomes]_vars

\* the handler has returned the acknowledgment and every notification of the
\* event has ended in one of the states of `ends`
AllEndedIn(ends) ==
    /\ pc = "done"
    /\ ack.statusCode = 200
    /\ Len(outcomes) = Len(Notifications(EventRecords(event)))
    /\ \A k \in 1..Len(outcomes) : outcomes[k] \in ends

\* C22 as stated: if every external call returns, every notification reaches
\* its report or failed state and the handler returns the acknowledgment; if
\* a model call never returns, the bulk write of its notification never
\* happens and no later notification is processed.
C22_AsStated ==
    /\ [][(pc = "fetch" /\ pc' # "fetch") => pc' \in {"pool", "failed"}]_vars
    /\ <>(AllEndedIn({"reported", "failed"}) \/ Hung)
    /\ Recorded
    /\ SameNotification
    /\ StalledByHang

\* C22, amended: if every external call returns, every notification reaches
\* its report or failed state or, in the classify handler, is left right
\* after the parse because the object holds an empty list, and the handler
\* returns the acknowledgment; if a model call never returns, the bulk write
\* of its notification never happens and no later notification is processed.
C22_Liveness ==
    /\ [][(pc = "fetch" /\ pc' # "fetch") =>
              \/ pc' \in {"pool", "failed"}
              \/ (handler = "classify" /\ pc' = "loop" /\ records' = <<>>)]_vars
    /\ <>(AllEndedIn({"reported", "failed", "empty"}) \/ Hung)
    /\ Recorded
    /\ SameNotification
    /\ StalledByHang

\* the first notification was written and reported, a model call of the
\* second one hangs
C22_Witness ==
    /\ Hung
    /\ outcomes = <<"reported">>
    /\ store # {}
    /\ pc = "pool"
    /\ Begun = 2

-----------------------------------------------------------------------------
(* C25 *)

\* the first record of the current object and its note
FirstRecord == records[1]
FirstNote == Get(FirstRecord, "note", JStr(<<>>))

\* C25: in the single-record handler a fetch or content-parse failure
\* propagates out of the handler: no acknowledgment is returned and the
\* notifications after the failing one are never processed; a failed store
\* write or a failed classification never propagates; at most one store
\* write is attempted per notification, for its first record only, and only
\* when that record's note and the batch id are non-empty.
C25_FailurePropagates ==
    /\ [][(pc = "fetch" /\ pc' # "fetch") =>
              \/ (pc' = "raised" /\ outcomes' = Append(outcomes, outcomes'[top])
                  /\ outcomes'[top] \in {"fetch_error", "bad_json", "scalar",
                                         "bad_record"})
              \/ (pc' = "classify" /\ outcomes' = outcomes)]_vars
    /\ [](\A k \in 1..Len(outcomes) :
             outcomes[k] \in SingleFailures => (pc = "raised" /\ k = Len(outcomes)))
    /\ [](pc = "raised" => (ack = NoAck /\ Len(outcomes) = top))
    /\ [][pc # "raised"]_vars
    /\ [](pc = "done" =>
             /\ ack.statusCode = 200
             /\ ack.processed_objects = Len(EventRecords(event))
             /\ Len(outcomes) = Len(EventRecords(event)))
    /\ [][pc = "write" => (pc' = "loop" /\ Len(outcomes') = top)]_vars
    /\ [][(pc = "classify" /\ results' # results) => pc' \in {"write", "loop"}]_vars
    /\ [](wr.calls <= 1)
    /\ [](wr.calls = 1 =>
             /\ records # <<>>
             /\ FirstNote.t = "str"
             /\ FirstNote.s # <<>>
             /\ batch_id # <<>>
             /\ items = <<SingleItem(batch_id, FirstRecord, results[1].category)>>)
    /\ [][store' # store => (pc = "write" /\ wr'.calls = 1)]_vars

\* the store write of the first notification failed and the handler went
\* on; the second notification's object could not be parsed and the handler
\* has raised
C25_Witness ==
    /\ handler = "single"
    /\ pc = "raised"
    /\ top = 2
    /\ outcomes = <<"write_failed", "bad_json">>
    /\ ack = NoAck

====
